---- MODULE Spec2Model ----
(***************************************************************************)
(* Model of the device-type descriptor compiler of RaftCore:               *)
(*   scripts/ProcessDevTypeJsonToC.py   (process_dev_types, __main__)      *)
(*   scripts/MicroPythonGenerator.py    (symbol table, decoders)           *)
(* A run is a sequential batch program; pc is the position in              *)
(* process_dev_types.  Text is modelled as tuples of one-character         *)
(* strings so that strip, split, the regular expressions and int(.,16)     *)
(* are computed as the code computes them.                                 *)
(***************************************************************************)
EXTENDS Integers, Sequences, FiniteSets, TLC

VARIABLES
    pc,                         \* position in the run
    exit_code,                  \* process exit status (-1 while running)
    error,                      \* what ended the run abnormally ("" if nothing)
    json_files,                 \* input: the content found at each path of json_paths
    gen_options,                \* input: the gen_options dictionary
    decode_generator,           \* the decode_generator the MicroPythonGenerator was given
    file_index,                 \* position of the load loop in json_files
    dev_ident_json,             \* dev_ident_json['devTypes']: ordered key -> descriptor
    dev_record_index,           \* dev_record_index of the loop at line 72 / 171
    addr_list,                  \* addr_list of the current descriptor
    addr_range,                 \* the local addr_range (Unbound until first assigned)
    addr_scan_priority_sets,    \* the three classification sets
    addr_index_to_dev_record,   \* dict: address -> list of record indices
    addr_index_to_dev_array,    \* list over 0x00..0x7f of index lists
    dev_poll_header,            \* output file at dev_poll_header_path
    dev_type_header,            \* output file at dev_type_header_path
    mp_qstr_header,             \* output file at gen_options["mp_qstr_header"]
    mp_decoder_header,          \* output file at gen_options["mp_decoder_header"]
    mp_decoder_source,          \* output file at gen_options["mp_decoder_source"]
    run_no,                     \* which run of the program this is (1 or 2)
    first_run,                  \* the output files left by the first run
    addr_tokens,                \* the tokens the address spec under test was written from
    field_text,                 \* a text field of a descriptor, given to the record emitter
    raw_literal,                \* the C++ raw string literal emitted for field_text
    json_paths,                 \* the json_paths argument of process_dev_types
    json_path_list,             \* the paths the load loop opens, in order
    sys_type_json,              \* GenerateSysTypes: the JSON value read from the input
    version_name,               \* GenerateSysTypes: the hardware revision being generated
    unversioned_sys_type_json   \* GenerateSysTypes: the copy replace_revisioned_values works on

vars == << pc, exit_code, error, json_files, gen_options, decode_generator, file_index,
           dev_ident_json, dev_record_index, addr_list, addr_range,
           addr_scan_priority_sets, addr_index_to_dev_record,
           addr_index_to_dev_array, dev_poll_header, dev_type_header,
           mp_qstr_header, mp_decoder_header, mp_decoder_source,
           run_no, first_run, addr_tokens, field_text, raw_literal,
           json_paths, json_path_list, sys_type_json, version_name,
           unversioned_sys_type_json >>

----------------------------------------------------------------------------
(* Bounds of the model *)

\* most input files on the command line
MaxFiles == 2
\* most device-type entries over all input files of a run
MaxDevs == 2
\* most tokens of an address spec in the parser's own specification
MaxTokens == 2
\* most entries over all files in the merge's own specification
MaxMergeDevs == 3

----------------------------------------------------------------------------
(* Text: a string is a tuple of one-character strings *)

Range(s) == { s[i] : i \in DOMAIN s }

\* str.strip() removes these from both ends
Whitespace == { " ", "\t" }

HexLower == << "0","1","2","3","4","5","6","7","8","9","a","b","c","d","e","f" >>
HexUpper == << "0","1","2","3","4","5","6","7","8","9","A","B","C","D","E","F" >>

\* the character class [0-9a-fA-F]
IsHexDigit(c) == c \in Range(HexLower) \cup Range(HexUpper)

\* value of one hexadecimal digit, as int(., 16) reads it
HexVal(c) ==
    IF c \in Range(HexLower)
    THEN (CHOOSE i \in DOMAIN HexLower : HexLower[i] = c) - 1
    ELSE (CHOOSE i \in DOMAIN HexUpper : HexUpper[i] = c) - 1

RECURSIVE LStrip(_)
LStrip(s) ==
    IF s # << >> /\ s[1] \in Whitespace THEN LStrip(Tail(s)) ELSE s

RECURSIVE RStrip(_)
RStrip(s) ==
    IF s # << >> /\ s[Len(s)] \in Whitespace
    THEN RStrip(SubSeq(s, 1, Len(s) - 1)) ELSE s

\* str.strip()
Strip(s) == RStrip(LStrip(s))

\* str.split(sep): always at least one part, empty parts kept
RECURSIVE Split(_, _)
Split(s, sep) ==
    IF \A i \in DOMAIN s : s[i] # sep
    THEN << s >>
    ELSE LET k == CHOOSE i \in DOMAIN s :
                    s[i] = sep /\ \A j \in 1..(i - 1) : s[j] # sep
         IN  << SubSeq(s, 1, k - 1) >> \o Split(SubSeq(s, k + 1, Len(s)), sep)

\* int("0xNN", 16) for a string the regular expressions accepted
IntHex(s) == 16 * HexVal(s[3]) + HexVal(s[4])

\* re.match(r'^0x[0-9a-fA-F]{2}$', s) on a stripped token
MatchSingle(s) ==
    /\ Len(s) = 4
    /\ s[1] = "0" /\ s[2] = "x"
    /\ IsHexDigit(s[3]) /\ IsHexDigit(s[4])

\* re.match(r'^0x[0-9a-fA-F]{2}-0x[0-9a-fA-F]{2}$', s) on a stripped token
MatchRange(s) ==
    /\ Len(s) = 9
    /\ MatchSingle(SubSeq(s, 1, 4))
    /\ s[5] = "-"
    /\ MatchSingle(SubSeq(s, 6, 9))

\* range(a, b + 1) counting from the smaller to the larger of a and b
RangeListEitherWay(a, b) ==
    [ i \in 1..(IF b >= a THEN b - a + 1 ELSE a - b + 1) |->
        (IF b >= a THEN a ELSE b) + i - 1 ]

\* list(range(a, b + 1))
RangeList(a, b) == [ i \in 1..(IF b >= a THEN b - a + 1 ELSE 0) |-> a + i - 1 ]

----------------------------------------------------------------------------
(* Address Range Parser: process_dev_types, lines 75-93 *)

\* dev_type.get("addresses", "") of a descriptor without the field
Absent == << "<absent>" >>

\* the local addr_range before its first assignment
Unbound == << "<unbound>" >>

\* lines 81-93 of the token loop: the address list built so far, and whether
\* the loop ended at sys.exit(1); last is the value left in addr_range
RECURSIVE ParseTokensMissingElse(_, _, _)
ParseTokensMissingElse(toks, acc, last) ==
    IF toks = << >>
    THEN [ ok |-> TRUE, addr_list |-> acc, addr_range |-> last ]
    ELSE LET t == Strip(Head(toks)) IN
         IF MatchRange(t)
         THEN LET parts == Split(t, "-") IN
              ParseTokensMissingElse(Tail(toks),
                  acc \o RangeList(IntHex(parts[1]), IntHex(parts[2])), t)
         ELSE IF MatchSingle(t)
         THEN ParseTokensMissingElse(Tail(toks), acc \o << IntHex(t) >>, t)
         ELSE ParseTokensMissingElse(Tail(toks), acc, t)

RECURSIVE ParseTokensExclusiveEnd(_, _, _)
ParseTokensExclusiveEnd(toks, acc, last) ==
    IF toks = << >>
    THEN [ ok |-> TRUE, addr_list |-> acc, addr_range |-> last ]
    ELSE LET t == Strip(Head(toks)) IN
         IF MatchRange(t)
         THEN LET parts == Split(t, "-") IN
              ParseTokensExclusiveEnd(Tail(toks),
                  acc \o RangeList(IntHex(parts[1]), IntHex(parts[2]) - 1), t)
         ELSE IF MatchSingle(t)
         THEN ParseTokensExclusiveEnd(Tail(toks), acc \o << IntHex(t) >>, t)
         ELSE [ ok |-> FALSE, addr_list |-> acc, addr_range |-> t ]

RECURSIVE ParseTokens(_, _, _)
ParseTokens(toks, acc, last) ==
    IF toks = << >>
    THEN [ ok |-> TRUE, addr_list |-> acc, addr_range |-> last ]
    ELSE LET t == Strip(Head(toks)) IN
         IF MatchRange(t)
         THEN LET parts == Split(t, "-") IN
              ParseTokens(Tail(toks),
                  acc \o RangeList(IntHex(parts[1]), IntHex(parts[2])), t)
         ELSE IF MatchSingle(t)
         THEN ParseTokens(Tail(toks), acc \o << IntHex(t) >>, t)
         ELSE [ ok |-> FALSE, addr_list |-> acc, addr_range |-> t ]

\* lines 77-93 for one descriptor: field is the "addresses" value (or Absent),
\* prev the value addr_range holds on entry
ParseAddresses(field, prev) ==
    LET addresses == Strip(IF field = Absent THEN << >> ELSE field) IN
    IF addresses = << >>
    THEN [ ok |-> TRUE, addr_list |-> << >>, addr_range |-> prev ]
    ELSE ParseTokens(Split(addresses, ","), << >>, prev)

----------------------------------------------------------------------------
(* Inputs: device-type descriptors, catalog files, options *)

\* scanPriority values of the JSON: absent, a number, a string, anything else
NoPriority == [ kind |-> "absent", n |-> 0, s |-> << >> ]
IntPriority(n) == [ kind |-> "int", n |-> n, s |-> << >> ]
StrPriority(s) == [ kind |-> "str", n |-> 0, s |-> s ]
OtherPriority == [ kind |-> "other", n |-> 0, s |-> << >> ]
\* JSON true / false: a Python bool, which isinstance(., int) accepts as 1 / 0
BoolPriority(b) == [ kind |-> "bool", n |-> IF b THEN 1 ELSE 0, s |-> << >> ]

S_high == << "h", "i", "g", "h" >>
S_medium == << "m", "e", "d", "i", "u", "m" >>
S_low == << "l", "o", "w" >>
S_int == << "i", "n", "t" >>
S_float == << "f", "l", "o", "a", "t" >>

\* one entry of devInfoJson.resp.a
Attr(n, t, d, a, o) == [ n |-> n, t |-> t, d |-> d, a |-> a, o |-> o ]

\* one value of devTypes
DevType(deviceType, addresses, scanPriority, a, b) ==
    [ deviceType |-> deviceType, addresses |-> addresses,
      scanPriority |-> scanPriority, resp_a |-> a, resp_b |-> b ]

\* high priority over a range; two 16-bit fields, 4 bytes declared
DevRangeHigh ==
    DevType(<< "T", "1" >>, << "0", "x", "1", "0", "-", "0", "x", "1", "2" >>, StrPriority(S_high),
            << Attr(<< "t", "m", "p" >>, ">h", 10, 0, S_float),
               Attr(<< "h", "u", "m" >>, ">H", 1, 0, S_int) >>, 4)
\* an address named twice (once inside a range), upper-case digits, a blank
DevRepeatedAddr ==
    DevType(<< "T", "2" >>, << "0", "x", "2", "0", ",", " ", "0", "x", "1", "F", "-", "0", "x", "2", "1" >>, StrPriority(S_medium),
            << Attr(<< "h", "u", "m" >>, "B", 1, 0, S_int) >>, 1)
\* no addresses field at all, high priority
DevNoAddrHigh ==
    DevType(<< "T", "3" >>, Absent, StrPriority(S_high), << >>, 0)
\* a blank address spec, low priority
DevBlankAddrLow ==
    DevType(<< "T", "4" >>, << " ", " " >>, StrPriority(S_low), << >>, 0)
\* a token with non-hexadecimal digits after a good one
DevBadDigits ==
    DevType(<< "T", "5" >>, << "0", "x", "1", "0", ",", "0", "x", "Z", "Z" >>, NoPriority, << >>, 0)
\* addresses around the edge of the valid window, numeric low priority
DevWindowEdgeLow ==
    DevType(<< "T", "6" >>, << "0", "x", "0", "3", ",", "0", "x", "7", "6", "-", "0", "x", "7", "8" >>, IntPriority(3), << >>, 0)
\* attribute widths sum to 4 bytes, 5 declared; numeric high priority on 0x11
DevSizeMismatch ==
    DevType(<< "T", "7" >>, << "0", "x", "1", "1" >>, IntPriority(1),
            << Attr(<< "a", "c", "c" >>, "<i", 1, 0, S_int) >>, 5)

DevTypes ==
    { DevRangeHigh, DevRepeatedAddr, DevNoAddrHigh, DevBlankAddrLow,
      DevBadDigits, DevWindowEdgeLow, DevSizeMismatch }

\* keys of the devTypes object
DevKeys == { "devA", "devB" }

\* what open() and json.load() find at one path
MissingFile == [ kind |-> "missing", devTypes |-> << >> ]
InvalidJsonFile == [ kind |-> "invalid", devTypes |-> << >> ]
JsonFile(entries) == [ kind |-> "ok", devTypes |-> entries ]

\* the devTypes objects of exactly n entries (keys of one object are distinct)
DevTypesObjects(n) ==
    { es \in [ 1..n -> [ key : DevKeys, val : DevTypes ] ] :
        \A i, j \in 1..n : i # j => es[i].key # es[j].key }

\* the files holding exactly n entries
FilesOf(n) ==
    (IF n = 0 THEN { MissingFile, InvalidJsonFile } ELSE {})
        \cup { JsonFile(es) : es \in DevTypesObjects(n) }

\* every file a run may be given
JsonFiles == UNION { FilesOf(n) : n \in 0..MaxDevs }

RECURSIVE TotalEntries(_)
TotalEntries(files) ==
    IF files = << >> THEN 0
    ELSE Len(Head(files).devTypes) + TotalEntries(Tail(files))

\* gen_options as __main__ builds it: native decode code with device-info JSON,
\* or scripting bindings with all three paths given
NativeOptions ==
    [ gen_decode |-> TRUE, inc_dev_info_json |-> TRUE,
      generate_micropython |-> FALSE, mp_qstr_header |-> FALSE,
      mp_decoder_header |-> FALSE, mp_decoder_source |-> FALSE ]
ScriptingOptions ==
    [ gen_decode |-> FALSE, inc_dev_info_json |-> FALSE,
      generate_micropython |-> TRUE, mp_qstr_header |-> TRUE,
      mp_decoder_header |-> TRUE, mp_decoder_source |-> TRUE ]
GenOptionSets == { NativeOptions, ScriptingOptions }

----------------------------------------------------------------------------
(* Program constants of process_dev_types *)

min_addr_array_index == 0
max_addr_array_index == 127
min_valid_i2c_addr == 4
max_valid_i2c_addr == 119
NUM_PRIORITY_LEVELS == 3
\* the literal 0x77 written as BASE_DEV_INDEX_BY_ARRAY_MAX_ADDR
BASE_DEV_INDEX_BY_ARRAY_MAX_ADDR == 119
\* largest value of a two-digit hexadecimal address
MaxAddr == 255

\* scan_priority_values
scan_priority_values == { << S_high, 0 >>, << S_medium, 1 >>, << S_low, 2 >> }
ScanPriorityNames == { p[1] : p \in scan_priority_values }
ScanPriorityValueOf(s) == (CHOOSE p \in scan_priority_values : p[1] = s)[2]

----------------------------------------------------------------------------
(* Scan Priority Classifier: lines 99-116 *)

\* line 105 before the clamp (the string is known to be a key of the table)
RawPriorityValue(sp) ==
    IF sp.kind \in { "int", "bool" } THEN sp.n - 1
    ELSE IF sp.kind = "str" THEN ScanPriorityValueOf(sp.s)
    ELSE NUM_PRIORITY_LEVELS - 1

\* lines 105-109
PriorityValue(sp) ==
    LET v == RawPriorityValue(sp) IN
    IF v < 0 THEN 0
    ELSE IF v > NUM_PRIORITY_LEVELS - 1 THEN NUM_PRIORITY_LEVELS - 1
    ELSE v

\* lines 110-116 with every address of a high-priority descriptor in set 0
AddToPrioritySetsAllHigh(sets, pv, addrs) ==
    [ sets EXCEPT ![pv + 1] = @ \cup Range(addrs) ]

\* lines 110-116 with the primary address always in set 0
AddToPrioritySetsPrimaryHigh(sets, pv, addrs) ==
    IF pv = 0
    THEN [ sets EXCEPT ![1] = @ \cup { addrs[1] },
                       ![2] = @ \cup Range(Tail(addrs)) ]
    ELSE IF addrs = << >> THEN sets
    ELSE [ sets EXCEPT ![1] = @ \cup { addrs[1] },
                       ![pv + 1] = @ \cup Range(Tail(addrs)) ]

\* lines 110-116; sets[i + 1] is addr_scan_priority_sets[i], addrs is not
\* empty when pv = 0
AddToPrioritySets(sets, pv, addrs) ==
    IF pv = 0
    THEN [ sets EXCEPT ![1] = @ \cup { addrs[1] },
                       ![2] = @ \cup Range(Tail(addrs)) ]
    ELSE [ sets EXCEPT ![pv + 1] = @ \cup Range(addrs) ]

----------------------------------------------------------------------------
(* Address Index Builder: lines 118-137 *)

\* lines 119-123 appending the record index counted from 1
RECURSIVE AddToAddrIndexFromOne(_, _, _)
AddToAddrIndexFromOne(rec, addrs, idx) ==
    IF addrs = << >> THEN rec
    ELSE LET a == Head(addrs) IN
         AddToAddrIndexFromOne(
             IF a \in DOMAIN rec
             THEN [ rec EXCEPT ![a] = Append(@, idx + 1) ]
             ELSE (a :> << idx + 1 >>) @@ rec,
             Tail(addrs), idx)

\* lines 119-123: every address of addrs gets record index idx appended
RECURSIVE AddToAddrIndex(_, _, _)
AddToAddrIndex(rec, addrs, idx) ==
    IF addrs = << >> THEN rec
    ELSE LET a == Head(addrs) IN
         AddToAddrIndex(
             IF a \in DOMAIN rec
             THEN [ rec EXCEPT ![a] = Append(@, idx) ]
             ELSE (a :> << idx >>) @@ rec,
             Tail(addrs), idx)

\* lines 130-137: element a + 1 is the list of address a
BuildAddrArray(rec) ==
    [ i \in 1..(max_addr_array_index - min_addr_array_index + 1) |->
        LET addr == min_addr_array_index + i - 1 IN
        IF addr \in DOMAIN rec THEN rec[addr] ELSE << >> ]

----------------------------------------------------------------------------
(* Binary field layout *)

\* byte_size of MicroPythonGenerator._get_extraction_info's type_map, 0 for a
\* type code the map does not hold
ByteSize(t) ==
    IF t \in { "b", "B" } THEN 1
    ELSE IF t \in { ">h", "<h", ">H", "<H" } THEN 2
    ELSE IF t \in { ">i", "<i", ">I", "<I", ">l", "<l", ">L", "<L", ">f", "<f" } THEN 4
    ELSE 0

RECURSIVE SumWidths(_)
SumWidths(attrs) ==
    IF attrs = << >> THEN 0 ELSE ByteSize(Head(attrs).t) + SumWidths(Tail(attrs))

\* DecodeGenerator.poll_data_bytes as the specification describes it:
\* the layout engine's final offset, the sum of the recognised fields' widths
poll_data_bytes(dev_type) == SumWidths(dev_type.resp_a)

\* DecodeGenerator.get_struct_defs: one definition per descriptor, catalog order
get_struct_defs(devTypes) == [ i \in DOMAIN devTypes |-> devTypes[i].val.deviceType ]

----------------------------------------------------------------------------
(* Sets, iteration order, sorting *)

\* the seeds of the interpreter's hash function: the order in which a set is
\* iterated is fixed only for one seed
HashSeeds == { 0, 1 }

Reverse(s) == [ i \in DOMAIN s |-> s[Len(s) + 1 - i] ]

AddrSeq == [ i \in 1..(MaxAddr + 1) |-> i - 1 ]

\* iteration over a set of addresses under a hash seed
IterAddrSet(S, seed) ==
    LET up == SelectSeq(AddrSeq, LAMBDA a : a \in S) IN
    IF seed = 0 THEN up ELSE Reverse(up)

\* list(iterable): the elements in iteration order
UnsortedAddrs(seq) == seq

\* sorted(iterable) of distinct addresses: ascending
SortedAddrs(seq) ==
    LET S == Range(seq) IN SelectSeq(AddrSeq, LAMBDA a : a \in S)

\* characters in code-point order
CodePoints == << " ", ",", "-", "0", "1", "2", "3", "4", "5", "6", "7", "8", "9", "A", "B", "C", "D", "E", "F", "G", "H", "I", "J", "K", "L", "M", "N", "O", "P", "Q", "R", "S", "T", "U", "V", "W", "X", "Y", "Z", "_", "a", "b", "c", "d", "e", "f", "g", "h", "i", "j", "k", "l", "m", "n", "o", "p", "q", "r", "s", "t", "u", "v", "w", "x", "y", "z" >>
OrdOf == [ c \in Range(CodePoints) |-> CHOOSE i \in DOMAIN CodePoints : CodePoints[i] = c ]
Ord(c) == OrdOf[c]

\* a < b for Python strings
RECURSIVE StrLess(_, _)
StrLess(a, b) ==
    IF b = << >> THEN FALSE
    ELSE IF a = << >> THEN TRUE
    ELSE IF a[1] = b[1] THEN StrLess(Tail(a), Tail(b))
    ELSE Ord(a[1]) < Ord(b[1])

RECURSIVE SetToSeq(_)
SetToSeq(S) ==
    IF S = {} THEN << >>
    ELSE LET x == CHOOSE x \in S : TRUE IN << x >> \o SetToSeq(S \ { x })

\* iteration over a set of strings under a hash seed
IterStrSet(S, seed) == IF seed = 0 THEN SetToSeq(S) ELSE Reverse(SetToSeq(S))

RECURSIVE InsertStr(_, _)
InsertStr(sorted, x) ==
    IF sorted = << >> THEN << x >>
    ELSE IF StrLess(x, Head(sorted)) THEN << x >> \o sorted
    ELSE << Head(sorted) >> \o InsertStr(Tail(sorted), x)

\* list(iterable) of strings: the elements in iteration order
UnsortedStrs(seq) == seq

\* sorted(iterable) of strings
RECURSIVE SortedStrs(_)
SortedStrs(seq) ==
    IF seq = << >> THEN << >>
    ELSE InsertStr(SortedStrs(SubSeq(seq, 1, Len(seq) - 1)), seq[Len(seq)])

----------------------------------------------------------------------------
(* Scan priority lists: lines 241-251 *)

ValidWindow == min_valid_i2c_addr..max_valid_i2c_addr

\* lines 243-251 without the subtraction loop of line 249
RECURSIVE FinalPrioritySetsNoSubtract(_, _)
FinalPrioritySetsNoSubtract(sets, i) ==
    IF i >= NUM_PRIORITY_LEVELS THEN sets
    ELSE IF i = 0 THEN FinalPrioritySetsNoSubtract(sets, 1)
    ELSE LET seeded == IF i = NUM_PRIORITY_LEVELS - 1 THEN ValidWindow ELSE sets[i + 1]
         IN  FinalPrioritySetsNoSubtract([ sets EXCEPT ![i + 1] = seeded ], i + 1)

\* lines 243-251 from level i on: addr_scan_priority_sets as the loop leaves
\* it (the levels below i are final already)
RECURSIVE FinalPrioritySets(_, _)
FinalPrioritySets(sets, i) ==
    IF i >= NUM_PRIORITY_LEVELS THEN sets
    ELSE IF i = 0 THEN FinalPrioritySets(sets, 1)
    ELSE LET seeded == IF i = NUM_PRIORITY_LEVELS - 1 THEN ValidWindow ELSE sets[i + 1]
             lower == UNION { sets[j + 1] : j \in 0..(i - 1) }
         IN  FinalPrioritySets([ sets EXCEPT ![i + 1] = seeded \ lower ], i + 1)

\* addr_scan_priority_lists with each final set in its iteration order
PriorityListsIterationOrder(final_sets, seed) ==
    [ i \in 1..NUM_PRIORITY_LEVELS |-> IterAddrSet(final_sets[i], seed) ]

\* addr_scan_priority_lists: each final set through sorted()
PriorityLists(final_sets, seed) ==
    [ i \in 1..NUM_PRIORITY_LEVELS |-> SortedAddrs(IterAddrSet(final_sets[i], seed)) ]

----------------------------------------------------------------------------
(* Scripting bindings: MicroPythonGenerator *)

\* standard_module_qstrs
standard_module_qstrs ==
    { << "d", "e", "v", "i", "c", "e" >>,
      << "o", "n", "_", "d", "a", "t", "a" >>,
      << "o", "n", "_", "s", "t", "a", "t", "u", "s" >>,
      << "g", "e", "t", "_", "d", "a", "t", "a" >>,
      << "l", "i", "s", "t" >>,
      << "t", "i", "m", "e", "s", "t", "a", "m", "p" >>,
      << "t", "y", "p", "e" >>,
      << "n", "a", "m", "e" >>,
      << "o", "n", "l", "i", "n", "e" >> }

\* a character of the class [a-zA-Z0-9_]
IsIdentChar(c) ==
    \/ Ord("0") <= Ord(c) /\ Ord(c) <= Ord("9")
    \/ Ord("A") <= Ord(c) /\ Ord(c) <= Ord("Z")
    \/ Ord("a") <= Ord(c) /\ Ord(c) <= Ord("z")
    \/ c = "_"

\* re.sub(r'[^a-zA-Z0-9_]', '_', qstr)
QstrName(qstr) == [ i \in DOMAIN qstr |-> IF IsIdentChar(qstr[i]) THEN qstr[i] ELSE "_" ]

\* _discover_qstrs_from_attribute (units off, metadata on)
QstrsOfAttribute(attr) ==
    (IF attr.n # << >> THEN { attr.n } ELSE {})
        \cup (IF attr.o # << >> THEN { attr.o } ELSE {})

\* _discover_qstrs_from_device_record and _discover_qstrs_from_device_info
QstrsOfRecord(dev_type) ==
    (IF dev_type.deviceType # << >> THEN { dev_type.deviceType } ELSE {})
        \cup (IF dev_type.scanPriority.kind = "str" /\ dev_type.scanPriority.s # << >>
              THEN { dev_type.scanPriority.s } ELSE {})
        \cup UNION { QstrsOfAttribute(dev_type.resp_a[i]) : i \in DOMAIN dev_type.resp_a }

\* the set qstrs of discover_all_qstr_candidates before it is sorted
QstrCandidates(devTypes) ==
    standard_module_qstrs
        \cup UNION { QstrsOfRecord(devTypes[i].val) : i \in DOMAIN devTypes }

\* discover_all_qstr_candidates returning the set in iteration order
discover_all_qstr_candidates_unsorted(devTypes, seed) ==
    UnsortedStrs(IterStrSet(QstrCandidates(devTypes), seed))

\* discover_all_qstr_candidates: sorted(qstrs)
discover_all_qstr_candidates(devTypes, seed) ==
    SortedStrs(IterStrSet(QstrCandidates(devTypes), seed))

\* generate_qstr_definitions: the Q(...) lines
generate_qstr_definitions(qstrs) == [ i \in DOMAIN qstrs |-> QstrName(qstrs[i]) ]

\* the descriptors with a non-empty deviceType, in catalog order
NamedDevTypes(devTypes) ==
    SelectSeq([ i \in DOMAIN devTypes |-> devTypes[i].val ],
              LAMBDA d : d.deviceType # << >>)

\* generate_micropython_header: the declared decoder functions
DecoderDeclarations(devTypes) ==
    [ i \in DOMAIN NamedDevTypes(devTypes) |-> NamedDevTypes(devTypes)[i].deviceType ]

\* str.lower() on one character
LowerChar(c) ==
    IF Ord("A") <= Ord(c) /\ Ord(c) <= Ord("Z")
    THEN CodePoints[Ord(c) + (Ord("a") - Ord("A"))] ELSE c

\* DecodeGenerator.to_valid_c_var_name, taken as the replacement of the
\* characters outside [a-zA-Z0-9_] by an underscore
to_valid_c_var_name(value) == QstrName(value)

\* _to_valid_identifier, lines 153-157: the replacement, an underscore before a
\* leading digit, lower case
FallbackIdentifier(value) ==
    LET clean == [ i \in DOMAIN value |-> IF IsIdentChar(value[i]) THEN value[i] ELSE "_" ]
        prefixed == IF clean # << >> /\ Ord("0") <= Ord(clean[1]) /\ Ord(clean[1]) <= Ord("9")
                    THEN << "_" >> \o clean ELSE clean
    IN  [ i \in DOMAIN prefixed |-> LowerChar(prefixed[i]) ]

\* _to_valid_identifier, lines 144-157
to_valid_identifier(value) ==
    IF value = << >> THEN << >>
    ELSE IF decode_generator # "None" THEN to_valid_c_var_name(value)
    ELSE FallbackIdentifier(value)

\* f"mp_decode_{device_type}"
FuncName(device_type) ==
    << "m", "p", "_", "d", "e", "c", "o", "d", "e", "_" >> \o device_type

\* no entry of type_map
NoExtractionInfo == [ c_type |-> "", extraction_method |-> "", byte_size |-> 0 ]

\* _get_extraction_info with a one-byte default for a type code not in type_map
ExtractionInfoDefaultByte(pystruct_type) ==
    [ c_type |-> "uint8_t", extraction_method |-> "mp_get_uint8", byte_size |-> 1 ]

\* _get_extraction_info, lines 388-407: type_map.get(pystruct_type, None)
ExtractionInfo(pystruct_type) ==
    LET type_map ==
          [ t \in { "b", "B", ">h", "<h", ">H", "<H", ">i", "<i", ">I", "<I",
                    ">l", "<l", ">L", "<L", ">f", "<f" } |->
              IF t = "b" THEN << "int8_t", "mp_get_int8", 1 >>
              ELSE IF t = "B" THEN << "uint8_t", "mp_get_uint8", 1 >>
              ELSE IF t = ">h" THEN << "int16_t", "mp_get_be_int16", 2 >>
              ELSE IF t = "<h" THEN << "int16_t", "mp_get_le_int16", 2 >>
              ELSE IF t = ">H" THEN << "uint16_t", "mp_get_be_uint16", 2 >>
              ELSE IF t = "<H" THEN << "uint16_t", "mp_get_le_uint16", 2 >>
              ELSE IF t = ">i" THEN << "int32_t", "mp_get_be_int32", 4 >>
              ELSE IF t = "<i" THEN << "int32_t", "mp_get_le_int32", 4 >>
              ELSE IF t = ">I" THEN << "uint32_t", "mp_get_be_uint32", 4 >>
              ELSE IF t = "<I" THEN << "uint32_t", "mp_get_le_uint32", 4 >>
              ELSE IF t = ">l" THEN << "int32_t", "mp_get_be_int32", 4 >>
              ELSE IF t = "<l" THEN << "int32_t", "mp_get_le_int32", 4 >>
              ELSE IF t = ">L" THEN << "uint32_t", "mp_get_be_uint32", 4 >>
              ELSE IF t = "<L" THEN << "uint32_t", "mp_get_le_uint32", 4 >>
              ELSE IF t = ">f" THEN << "float", "mp_get_be_float32", 4 >>
              ELSE << "float", "mp_get_le_float32", 4 >> ]
    IN  IF pystruct_type \in DOMAIN type_map
        THEN [ c_type |-> type_map[pystruct_type][1],
               extraction_method |-> type_map[pystruct_type][2],
               byte_size |-> type_map[pystruct_type][3] ]
        ELSE NoExtractionInfo

\* line 347 testing the divisor only
NeedsScalingDivisorOnly(attr_divisor, attr_offset) == attr_divisor # 1

\* line 347: attr_divisor != 1 or attr_offset != 0
NeedsScaling(attr_divisor, attr_offset) == attr_divisor # 1 \/ attr_offset # 0

\* line 371 advancing by one byte whatever the field
AdvanceOneByte(buffer_offset, byte_size) == buffer_offset + 1

\* line 371 advancing by twice the field's width
AdvanceDouble(buffer_offset, byte_size) == buffer_offset + 2 * byte_size

\* line 371: buffer_offset += byte_size
Advance(buffer_offset, byte_size) == buffer_offset + byte_size

\* lines 332-369: what is written for one attribute that has a name and a type:
\* the comment of line 338 for a type code type_map does not hold, else the
\* extraction at buffer_offset and the statements that store the value
AttributeCode(attr, buffer_offset) ==
    LET extraction_info == ExtractionInfo(attr.t)
        float_out == attr.o = S_float
        scaled == NeedsScaling(attr.d, attr.a)
    IN  IF extraction_info = NoExtractionInfo
        THEN [ emitted |-> "skipping_comment", attr_name |-> attr.n, attr_type |-> attr.t,
               qstr_name |-> << >>,
               c_type |-> "", extraction_method |-> "", buffer_offset |-> 0,
               value_type |-> "", divisor |-> << >>, offset |-> << >>,
               store |-> "", cast |-> "" ]
        ELSE [ emitted |-> "extraction", attr_name |-> attr.n, attr_type |-> attr.t,
               \* line 333: MP_QSTR_ followed by this identifier
               qstr_name |-> to_valid_identifier(attr.n),
               c_type |-> extraction_info.c_type,
               extraction_method |-> extraction_info.extraction_method,
               buffer_offset |-> buffer_offset,
               \* the {attr_name}_value variable, "" when the raw value is stored
               value_type |-> IF ~scaled THEN "" ELSE IF float_out THEN "float" ELSE "int",
               \* the divisor as written: a float literal (10.0f) or the number
               divisor |-> IF ~scaled THEN << >>
                           ELSE IF float_out THEN << "float", attr.d >>
                           ELSE << "int", attr.d >>,
               \* the + offset_str, written only when attr_offset != 0
               offset |-> IF ~scaled \/ attr.a = 0 THEN << >>
                          ELSE IF float_out THEN << "float", attr.a >>
                          ELSE << "int", attr.a >>,
               store |-> IF float_out THEN "mp_dict_store_float" ELSE "mp_dict_store_int",
               cast |-> IF scaled THEN "" ELSE IF float_out THEN "(float)" ELSE "(int)" ]

\* lines 321-371: the loop over attributes from buffer_offset on
RECURSIVE DecoderStatements(_, _)
DecoderStatements(attributes, buffer_offset) ==
    IF attributes = << >> THEN << >>
    ELSE LET attr == Head(attributes) IN
         IF attr.n = << >> \/ attr.t = ""
         THEN DecoderStatements(Tail(attributes), buffer_offset)
         ELSE IF ExtractionInfo(attr.t) = NoExtractionInfo
         THEN << AttributeCode(attr, buffer_offset) >>
                  \o DecoderStatements(Tail(attributes), buffer_offset)
         ELSE << AttributeCode(attr, buffer_offset) >>
                  \o DecoderStatements(Tail(attributes),
                                       Advance(buffer_offset, ExtractionInfo(attr.t).byte_size))

\* _generate_device_decoder_function: function name, length guard, statements
DecoderFunctions(devTypes) ==
    [ i \in DOMAIN NamedDevTypes(devTypes) |->
        [ device_type |-> NamedDevTypes(devTypes)[i].deviceType,
          func_name |-> FuncName(NamedDevTypes(devTypes)[i].deviceType),
          expected_bytes |-> NamedDevTypes(devTypes)[i].resp_b,
          statements |-> DecoderStatements(NamedDevTypes(devTypes)[i].resp_a, 0) ] ]

\* the strcmp chain with a branch for every descriptor, named or not
LookupChainUnfiltered(devTypes) ==
    [ i \in DOMAIN devTypes |->
        [ device_type |-> devTypes[i].val.deviceType,
          func_name |-> FuncName(devTypes[i].val.deviceType) ] ]

\* _generate_device_lookup_function: the branches of the strcmp chain
LookupChain(devTypes) ==
    [ i \in DOMAIN NamedDevTypes(devTypes) |->
        [ device_type |-> NamedDevTypes(devTypes)[i].deviceType,
          func_name |-> FuncName(NamedDevTypes(devTypes)[i].deviceType) ] ]

\* return mp_const_none
MpConstNone == << "m", "p", "_", "c", "o", "n", "s", "t", "_", "n", "o", "n", "e" >>

\* the generated mp_decode_device_data run on deviceType: the function the
\* if / else if chain calls, or mp_const_none after the last branch
RECURSIVE mp_decode_device_data(_, _)
mp_decode_device_data(chain, deviceType) ==
    IF chain = << >> THEN MpConstNone
    ELSE IF Head(chain).device_type = deviceType THEN Head(chain).func_name
    ELSE mp_decode_device_data(Tail(chain), deviceType)

----------------------------------------------------------------------------
(* Output files *)

NoPollHeader == [ exists |-> FALSE, struct_defs |-> << >> ]

NoTypeHeader ==
    [ exists |-> FALSE, records |-> << >>, tables |-> FALSE,
      min_addr |-> -1, max_addr |-> -1,
      count_by_addr |-> << >>, index_arrays |-> << >>, index_by_addr |-> << >>,
      scan_lists |-> << >>, scan_list_lengths |-> << >> ]

NoQstrHeader == [ exists |-> FALSE, qstrs |-> << >> ]
NoDecoderHeader == [ exists |-> FALSE, decls |-> << >> ]
NoDecoderSource == [ exists |-> FALSE, decoders |-> << >>, lookup |-> << >> ]

\* everything the run has left on disk
OutputFiles ==
    [ poll |-> dev_poll_header, type |-> dev_type_header, qstr |-> mp_qstr_header,
      mp_header |-> mp_decoder_header, mp_source |-> mp_decoder_source ]

\* no output path has been opened for writing
NoOutputWritten ==
    /\ ~dev_poll_header.exists
    /\ ~dev_type_header.exists
    /\ ~mp_qstr_header.exists
    /\ ~mp_decoder_header.exists
    /\ ~mp_decoder_source.exists

----------------------------------------------------------------------------
(* The run *)

inputs == << json_files, gen_options, decode_generator, addr_tokens >>
\* the variables of the functions that are modelled on their own
units == << field_text, raw_literal, json_paths, json_path_list,
           sys_type_json, version_name, unversioned_sys_type_json >>
runs == << run_no, first_run >>
outputs == << dev_poll_header, dev_type_header, mp_qstr_header,
              mp_decoder_header, mp_decoder_source >>
mp_outputs == << mp_qstr_header, mp_decoder_header, mp_decoder_source >>
loaded == << file_index, dev_ident_json >>
tables == << addr_scan_priority_sets, addr_index_to_dev_record,
             addr_index_to_dev_array >>
parsed == << addr_list, addr_range >>

\* sys.exit(1), or an exception nobody catches: the interpreter exits with 1
Abort(why) ==
    /\ pc' = "aborted"
    /\ exit_code' = 1
    /\ error' = why

Running == /\ exit_code' = exit_code /\ error' = error

\* head of the loop at line 72
NextDev(devTypes, index) ==
    IF index < Len(devTypes) THEN "addresses" ELSE "build_array"

\* dict.update where a key already present moves to the end
DictUpdateMoveToEnd(d, entries) ==
    SelectSeq(d, LAMBDA e : \A i \in DOMAIN entries : entries[i].key # e.key)
        \o entries

\* dict.update(entries): a key already present keeps its place and takes the
\* new value, a new key goes to the end
RECURSIVE DictUpdate(_, _)
DictUpdate(d, entries) ==
    IF entries = << >> THEN d
    ELSE LET e == Head(entries) IN
         DictUpdate(
             IF \E i \in DOMAIN d : d[i].key = e.key
             THEN [ i \in DOMAIN d |-> IF d[i].key = e.key THEN e ELSE d[i] ]
             ELSE Append(d, e),
             Tail(entries))

\* JSON values: null, a number, a list of values, a dict of key / value pairs
JNull == [ type |-> "null", v |-> 0, items |-> << >> ]
JNum(n) == [ type |-> "num", v |-> n, items |-> << >> ]
JList(items) == [ type |-> "list", v |-> 0, items |-> items ]
JDict(items) == [ type |-> "dict", v |-> 0, items |-> items ]
JItem(key, val) == [ key |-> key, val |-> val ]

\* the functions modelled on their own have not been called
UnitsIdle ==
    /\ field_text = << >>
    /\ raw_literal = << >>
    /\ json_paths = << >>
    /\ json_path_list = << >>
    /\ sys_type_json = JNull
    /\ version_name = 0
    /\ unversioned_sys_type_json = JNull

\* the locals and the output files as process_dev_types finds them
StartOfRun ==
    /\ exit_code = -1
    /\ error = ""
    /\ file_index = 1
    /\ dev_record_index = 0
    /\ addr_list = << >>
    /\ addr_range = Unbound
    /\ addr_scan_priority_sets = [ i \in 1..NUM_PRIORITY_LEVELS |-> {} ]
    /\ addr_index_to_dev_record = << >>
    /\ addr_index_to_dev_array = << >>
    /\ dev_poll_header = NoPollHeader
    /\ dev_type_header = NoTypeHeader
    /\ mp_qstr_header = NoQstrHeader
    /\ mp_decoder_header = NoDecoderHeader
    /\ mp_decoder_source = NoDecoderSource
    /\ run_no = 1
    /\ first_run = << >>
    /\ addr_tokens = << >>

Init ==
    /\ \E k \in 0..MaxFiles :
         \E files \in [ 1..k -> JsonFiles ] :
            /\ TotalEntries(files) <= MaxDevs
            /\ json_files = files
    /\ gen_options \in GenOptionSets
    /\ decode_generator = "DecodeGenerator"
    /\ pc = IF json_files = << >> THEN "build_array" ELSE "load"
    /\ exit_code = -1
    /\ error = ""
    /\ file_index = 1
    /\ dev_ident_json = << >>
    /\ dev_record_index = 0
    /\ addr_list = << >>
    /\ addr_range = Unbound
    /\ addr_scan_priority_sets = [ i \in 1..NUM_PRIORITY_LEVELS |-> {} ]
    /\ addr_index_to_dev_record = << >>
    /\ addr_index_to_dev_array = << >>
    /\ dev_poll_header = NoPollHeader
    /\ dev_type_header = NoTypeHeader
    /\ mp_qstr_header = NoQstrHeader
    /\ mp_decoder_header = NoDecoderHeader
    /\ mp_decoder_source = NoDecoderSource
    /\ run_no = 1
    /\ first_run = << >>
    /\ addr_tokens = << >>
    /\ UnitsIdle

\* open and json.load that read any file as an empty catalog
OpenAndLoadLenient(f) == ""

\* the exception open (line 47) or json.load (line 48) raises on f, "" if none
OpenAndLoad(f) ==
    IF f.kind = "missing" THEN "FileNotFoundError"
    ELSE IF f.kind = "invalid" THEN "JSONDecodeError"
    ELSE ""

\* lines 44-50, one file: open, json.load, merge
LoadFile ==
    /\ pc = "load"
    /\ LET f == json_files[file_index] IN
       IF OpenAndLoad(f) # ""
       THEN Abort(OpenAndLoad(f)) /\ UNCHANGED loaded
       ELSE /\ dev_ident_json' = DictUpdate(dev_ident_json, f.devTypes)
            /\ file_index' = file_index + 1
            /\ pc' = IF file_index = Len(json_files)
                     THEN NextDev(dev_ident_json', 0) ELSE "load"
            /\ Running
    /\ UNCHANGED << units, inputs, runs, outputs, tables, parsed, dev_record_index >>

\* lines 77-97, one descriptor: the address list, then the debug print
ParseAddrs ==
    /\ pc = "addresses"
    /\ LET dev_type == dev_ident_json[dev_record_index + 1].val
           r == ParseAddresses(dev_type.addresses, addr_range)
       IN  IF ~r.ok
           THEN /\ Abort("InvalidAddressRange")
                /\ addr_range' = r.addr_range
                /\ addr_list' = r.addr_list
           ELSE IF r.addr_range = Unbound
           THEN /\ Abort("UnboundLocalError")
                /\ addr_range' = r.addr_range
                /\ addr_list' = r.addr_list
           ELSE /\ addr_list' = r.addr_list
                /\ addr_range' = r.addr_range
                /\ pc' = "classify"
                /\ Running
    /\ UNCHANGED << units, inputs, runs, outputs, tables, loaded, dev_record_index >>

\* lines 99-116, one descriptor
Classify ==
    /\ pc = "classify"
    /\ LET sp == dev_ident_json[dev_record_index + 1].val.scanPriority IN
       IF sp.kind = "absent"
       THEN /\ pc' = "index" /\ Running
            /\ UNCHANGED addr_scan_priority_sets
       ELSE IF sp.kind = "str" /\ sp.s \notin ScanPriorityNames
       THEN Abort("KeyError") /\ UNCHANGED addr_scan_priority_sets
       ELSE IF PriorityValue(sp) = 0 /\ addr_list = << >>
       THEN Abort("IndexError") /\ UNCHANGED addr_scan_priority_sets
       ELSE /\ addr_scan_priority_sets' =
                   AddToPrioritySets(addr_scan_priority_sets, PriorityValue(sp), addr_list)
            /\ pc' = "index" /\ Running
    /\ UNCHANGED << units, inputs, runs, outputs, loaded, parsed, dev_record_index,
                    addr_index_to_dev_record, addr_index_to_dev_array >>

\* lines 118-126, one descriptor
IndexAddrs ==
    /\ pc = "index"
    /\ addr_index_to_dev_record' =
           AddToAddrIndex(addr_index_to_dev_record, addr_list, dev_record_index)
    /\ dev_record_index' = dev_record_index + 1
    /\ pc' = NextDev(dev_ident_json, dev_record_index + 1)
    /\ Running
    /\ UNCHANGED << units, inputs, runs, outputs, loaded, parsed,
                    addr_scan_priority_sets, addr_index_to_dev_array >>

\* lines 128-140
BuildArray ==
    /\ pc = "build_array"
    /\ addr_index_to_dev_array' = BuildAddrArray(addr_index_to_dev_record)
    /\ pc' = "poll_header"
    /\ Running
    /\ UNCHANGED << units, inputs, runs, outputs, loaded, parsed, dev_record_index,
                    addr_scan_priority_sets, addr_index_to_dev_record >>

\* lines 142-153: the poll-record file, opened, written and closed
WritePollHeader ==
    /\ pc = "poll_header"
    /\ dev_poll_header' =
           [ exists |-> TRUE,
             struct_defs |-> IF gen_options.gen_decode
                             THEN get_struct_defs(dev_ident_json) ELSE << >> ]
    /\ pc' = "type_header"
    /\ Running
    /\ UNCHANGED << units, inputs, runs, loaded, parsed, tables, dev_record_index,
                    dev_type_header, mp_outputs >>

\* lines 155-170: the device-type file opened, its preamble written
OpenTypeHeader ==
    /\ pc = "type_header"
    /\ dev_type_header' = [ NoTypeHeader EXCEPT !.exists = TRUE ]
    /\ dev_record_index' = 0
    /\ pc' = IF Len(dev_ident_json) > 0 THEN "record" ELSE "tables"
    /\ Running
    /\ UNCHANGED << units, inputs, runs, loaded, parsed, tables,
                    dev_poll_header, mp_outputs >>

\* the struct literal of lines 185-201
DeviceTypeRecord(dev_type, size, options) ==
    [ deviceType |-> dev_type.deviceType,
      addresses |-> IF dev_type.addresses = Absent THEN << >> ELSE dev_type.addresses,
      poll_data_size_bytes |-> size,
      dev_info_json |-> options.inc_dev_info_json,
      decode_fn |-> options.gen_decode ]

\* lines 171-202, one descriptor: the size check, then its record
WriteRecord ==
    /\ pc = "record"
    /\ LET dev_type == dev_ident_json[dev_record_index + 1].val
           poll_data_size_bytes == poll_data_bytes(dev_type)
       IN  IF poll_data_size_bytes # dev_type.resp_b
           THEN /\ Abort("PollDataSizeMismatch")
                /\ UNCHANGED << dev_type_header, dev_record_index >>
           ELSE /\ dev_type_header' =
                       [ dev_type_header EXCEPT !.records =
                           Append(@, DeviceTypeRecord(dev_type, poll_data_size_bytes,
                                                      gen_options)) ]
                /\ dev_record_index' = dev_record_index + 1
                /\ pc' = IF dev_record_index + 1 < Len(dev_ident_json)
                         THEN "record" ELSE "tables"
                /\ Running
    /\ UNCHANGED << units, inputs, runs, loaded, parsed, tables,
                    dev_poll_header, mp_outputs >>

\* lines 218 and 233: range(min_addr_array_index, max_addr_array_index+1)
AddrArrayRange ==
    [ i \in 1..(max_addr_array_index - min_addr_array_index + 1) |->
        min_addr_array_index + i - 1 ]

\* lines 211-215: baseDevTypeCountByAddr, one len(addr_index) per entry
BaseDevTypeCountByAddr(dev_array) ==
    [ i \in DOMAIN dev_array |-> Len(dev_array[i]) ]

\* lines 218-226: a baseDevTypeIndexByAddr_0x{addr:02x} array for every address
\* of the range whose list is not empty, holding the list
BaseDevTypeIndexArrays(dev_array) ==
    LET used == SelectSeq(AddrArrayRange, LAMBDA a : Len(dev_array[a + 1]) > 0)
    IN  [ i \in DOMAIN used |-> [ addr |-> used[i], indices |-> dev_array[used[i] + 1] ] ]

\* lines 229-239 with nullptr written for addresses that have at most one index
BaseDevTypeIndexByAddrSingleNull(dev_array) ==
    [ i \in DOMAIN AddrArrayRange |->
        IF Len(dev_array[AddrArrayRange[i] + 1]) <= 1 THEN -1 ELSE AddrArrayRange[i] ]

\* lines 229-239: baseDevTypeIndexByAddr, nullptr (-1) for an empty list, else
\* the array named after the address
BaseDevTypeIndexByAddr(dev_array) ==
    [ i \in DOMAIN AddrArrayRange |->
        IF Len(dev_array[AddrArrayRange[i] + 1]) = 0 THEN -1 ELSE AddrArrayRange[i] ]

\* lines 204-276: the address tables and the scan priority lists, file closed
WriteTables ==
    /\ pc = "tables"
    /\ \E seed \in HashSeeds :
         LET final_sets == FinalPrioritySets(addr_scan_priority_sets, 0)
             lists == PriorityLists(final_sets, seed)
         IN  /\ addr_scan_priority_sets' = final_sets
             /\ dev_type_header' =
                    [ dev_type_header EXCEPT
                        !.tables = TRUE,
                        !.min_addr = 0,
                        !.max_addr = BASE_DEV_INDEX_BY_ARRAY_MAX_ADDR,
                        !.count_by_addr = BaseDevTypeCountByAddr(addr_index_to_dev_array),
                        !.index_arrays = BaseDevTypeIndexArrays(addr_index_to_dev_array),
                        !.index_by_addr = BaseDevTypeIndexByAddr(addr_index_to_dev_array),
                        !.scan_lists = lists,
                        !.scan_list_lengths = [ i \in DOMAIN lists |-> Len(lists[i]) ] ]
    /\ pc' = IF gen_options.generate_micropython THEN "micropython" ELSE "return"
    /\ Running
    /\ UNCHANGED << units, inputs, runs, loaded, parsed, dev_record_index,
                    addr_index_to_dev_record, addr_index_to_dev_array,
                    dev_poll_header, mp_outputs >>

\* generate_micropython_files, lines 282-298
GenerateMicroPython ==
    /\ pc = "micropython"
    /\ \E seed \in HashSeeds :
         mp_qstr_header' =
             IF gen_options.mp_qstr_header
             THEN [ exists |-> TRUE,
                    qstrs |-> generate_qstr_definitions(
                                  discover_all_qstr_candidates(dev_ident_json, seed)) ]
             ELSE mp_qstr_header
    /\ mp_decoder_header' =
           IF gen_options.mp_decoder_header
           THEN [ exists |-> TRUE, decls |-> DecoderDeclarations(dev_ident_json) ]
           ELSE mp_decoder_header
    /\ mp_decoder_source' =
           IF gen_options.mp_decoder_source
           THEN [ exists |-> TRUE, decoders |-> DecoderFunctions(dev_ident_json),
                  lookup |-> LookupChain(dev_ident_json) ]
           ELSE mp_decoder_source
    /\ pc' = "return"
    /\ Running
    /\ UNCHANGED << units, inputs, runs, loaded, parsed, tables, dev_record_index,
                    dev_poll_header, dev_type_header >>

\* __main__, line 349: sys.exit(0)
Exit ==
    /\ pc = "return"
    /\ pc' = "done"
    /\ exit_code' = 0
    /\ UNCHANGED << units, error, inputs, runs, outputs, loaded, parsed, tables,
                    dev_record_index >>

Next ==
    \/ LoadFile
    \/ ParseAddrs
    \/ Classify
    \/ IndexAddrs
    \/ BuildArray
    \/ WritePollHeader
    \/ OpenTypeHeader
    \/ WriteRecord
    \/ WriteTables
    \/ GenerateMicroPython
    \/ Exit

Spec == Init /\ [][Next]_vars

----------------------------------------------------------------------------
(* The address parser on its own: every spec written from at most MaxTokens
   tokens, parsed by ParseAddrs as the only descriptor of the catalog *)

\* addresses the tokens are written from
TokenAddrs == { 16, 18, 171 }

\* a token: one address (hi = -1) or a range lo-hi, written with lower-case
\* digits, with upper-case digits, or with blanks around it
AddrTokens ==
    [ lo : TokenAddrs, hi : TokenAddrs \cup { -1 },
      style : { "lower", "upper", "padded" } ]

\* "0xNN"
HexText(v, style) ==
    LET digits == IF style = "upper" THEN HexUpper ELSE HexLower IN
    << "0", "x", digits[(v \div 16) + 1], digits[(v % 16) + 1] >>

TokenText(tok) ==
    LET t == IF tok.hi = -1 THEN HexText(tok.lo, tok.style)
             ELSE HexText(tok.lo, tok.style) \o << "-" >> \o HexText(tok.hi, tok.style)
    IN  IF tok.style = "padded" THEN << " " >> \o t \o << "\t" >> ELSE t

\* the tokens joined by commas
RECURSIVE SpecText(_)
SpecText(toks) ==
    IF toks = << >> THEN << >>
    ELSE IF Len(toks) = 1 THEN TokenText(toks[1])
    ELSE TokenText(toks[1]) \o << "," >> \o SpecText(Tail(toks))

\* the addresses a token stands for
TokenAddresses(tok) ==
    IF tok.hi = -1 THEN << tok.lo >> ELSE RangeList(tok.lo, tok.hi)

RECURSIVE SpecAddresses(_)
SpecAddresses(toks) ==
    IF toks = << >> THEN << >>
    ELSE TokenAddresses(Head(toks)) \o SpecAddresses(Tail(toks))

InitParse ==
    /\ \E k \in 1..MaxTokens : addr_tokens \in [ 1..k -> AddrTokens ]
    /\ dev_ident_json =
           << [ key |-> "devA",
                val |-> DevType(<< "T", "1" >>, SpecText(addr_tokens),
                                NoPriority, << >>, 0) ] >>
    /\ json_files = << JsonFile(dev_ident_json) >>
    /\ gen_options = NativeOptions
    /\ decode_generator = "DecodeGenerator"
    /\ pc = "addresses"
    /\ exit_code = -1
    /\ error = ""
    /\ file_index = 2
    /\ dev_record_index = 0
    /\ addr_list = << >>
    /\ addr_range = Unbound
    /\ addr_scan_priority_sets = [ i \in 1..NUM_PRIORITY_LEVELS |-> {} ]
    /\ addr_index_to_dev_record = << >>
    /\ addr_index_to_dev_array = << >>
    /\ dev_poll_header = NoPollHeader
    /\ dev_type_header = NoTypeHeader
    /\ mp_qstr_header = NoQstrHeader
    /\ mp_decoder_header = NoDecoderHeader
    /\ mp_decoder_source = NoDecoderSource
    /\ run_no = 1
    /\ first_run = << >>
    /\ UnitsIdle

SpecParse == InitParse /\ [][ParseAddrs]_vars

----------------------------------------------------------------------------
(* The catalog merge on its own: files over three keys, loaded by LoadFile *)

MergeKeys == { "devA", "devB", "devC" }
MergeDevTypes == { DevRangeHigh, DevRepeatedAddr }

MergeObjects(n) ==
    { es \in [ 1..n -> [ key : MergeKeys, val : MergeDevTypes ] ] :
        \A i, j \in 1..n : i # j => es[i].key # es[j].key }

MergeFiles ==
    { JsonFile(es) : es \in UNION { MergeObjects(n) :
          n \in 0..(IF MaxMergeDevs < Cardinality(MergeKeys)
                    THEN MaxMergeDevs ELSE Cardinality(MergeKeys)) } }

InitMerge ==
    /\ \E k \in 1..MaxFiles :
         \E files \in [ 1..k -> MergeFiles ] :
            /\ TotalEntries(files) <= MaxMergeDevs
            /\ json_files = files
    /\ gen_options = NativeOptions
    /\ decode_generator = "DecodeGenerator"
    /\ pc = "load"
    /\ exit_code = -1
    /\ error = ""
    /\ file_index = 1
    /\ dev_ident_json = << >>
    /\ dev_record_index = 0
    /\ addr_list = << >>
    /\ addr_range = Unbound
    /\ addr_scan_priority_sets = [ i \in 1..NUM_PRIORITY_LEVELS |-> {} ]
    /\ addr_index_to_dev_record = << >>
    /\ addr_index_to_dev_array = << >>
    /\ dev_poll_header = NoPollHeader
    /\ dev_type_header = NoTypeHeader
    /\ mp_qstr_header = NoQstrHeader
    /\ mp_decoder_header = NoDecoderHeader
    /\ mp_decoder_source = NoDecoderSource
    /\ run_no = 1
    /\ first_run = << >>
    /\ addr_tokens = << >>
    /\ UnitsIdle

SpecMerge == InitMerge /\ [][LoadFile]_vars

----------------------------------------------------------------------------
(* The compiler run twice on the same input: the files of the first run stay
   on disk, the second run starts from the same arguments *)

Rerun ==
    /\ run_no = 1
    /\ pc \in { "done", "aborted" }
    /\ run_no' = 2
    /\ first_run' = OutputFiles
    /\ pc' = IF json_files = << >> THEN "build_array" ELSE "load"
    /\ exit_code' = -1
    /\ error' = ""
    /\ file_index' = 1
    /\ dev_ident_json' = << >>
    /\ dev_record_index' = 0
    /\ addr_list' = << >>
    /\ addr_range' = Unbound
    /\ addr_scan_priority_sets' = [ i \in 1..NUM_PRIORITY_LEVELS |-> {} ]
    /\ addr_index_to_dev_record' = << >>
    /\ addr_index_to_dev_array' = << >>
    /\ UNCHANGED << units, inputs, outputs >>

InitTwice == Init /\ Len(json_files) <= 1

NextTwice == Next \/ Rerun

SpecTwice == InitTwice /\ [][NextTwice]_vars

----------------------------------------------------------------------------
(* A text field of a device-type record, emitted as a C++ raw string literal
   (lines 185-194) and read back as the C++ lexer reads it *)

\* longest field text
MaxTextLen == 3

\* characters of a field text: a letter, a double quote, parentheses
TextChars == { "a", "\"", "(", ")" }

FieldTexts == UNION { [ 1..n -> TextChars ] : n \in 0..MaxTextLen }

\* R"({text})" of the f-strings of lines 186-194
RawStringLiteral(text) == << "R", "\"", "(" >> \o text \o << ")", "\"" >>

\* a C++ raw string literal with the empty delimiter ends at the first )" after
\* its opening R"( : the position of that ) in lit
RawStringEnd(lit) ==
    CHOOSE i \in 4..(Len(lit) - 1) :
        /\ lit[i] = ")" /\ lit[i + 1] = "\""
        /\ \A j \in 4..(i - 1) : ~(lit[j] = ")" /\ lit[j + 1] = "\"")

\* the text the literal denotes
RawStringContent(lit) == SubSeq(lit, 4, RawStringEnd(lit) - 1)

\* what follows the literal's closing delimiter in the emitted characters
RawStringRest(lit) == SubSeq(lit, RawStringEnd(lit) + 2, Len(lit))

InitLiteral ==
    /\ field_text \in FieldTexts
    /\ raw_literal = << >>
    /\ json_paths = << >> /\ json_path_list = << >>
    /\ sys_type_json = JNull /\ version_name = 0
    /\ unversioned_sys_type_json = JNull
    /\ json_files = << >> /\ dev_ident_json = << >>
    /\ gen_options = NativeOptions
    /\ decode_generator = "DecodeGenerator"
    /\ pc = "record"
    /\ StartOfRun

\* one of the writes of lines 186-194
WriteField ==
    /\ pc = "record"
    /\ raw_literal = << >>
    /\ raw_literal' = RawStringLiteral(field_text)
    /\ UNCHANGED << pc, exit_code, error, inputs, runs, outputs, loaded, parsed,
                    tables, dev_record_index, field_text, json_paths,
                    json_path_list, sys_type_json, version_name,
                    unversioned_sys_type_json >>

SpecLiteral == InitLiteral /\ [][WriteField]_vars

----------------------------------------------------------------------------
(* The dispatch function on its own: catalogs of descriptors with and without
   a deviceType, given to generate_micropython_files *)

\* most descriptors of such a catalog
MaxLookupDevs == 3

LookupKeys == << "devA", "devB", "devC", "devD", "devE" >>
LookupDevTypes == { << >>, << "T", "1" >>, << "T", "2" >>, << "T", "3" >> }

\* device types a caller may ask mp_decode_device_data for
LookupRequests == LookupDevTypes \cup { << "T", "9" >> }

InitLookup ==
    /\ \E n \in 0..MaxLookupDevs :
         \E dts \in [ 1..n -> LookupDevTypes ] :
            dev_ident_json =
                [ i \in 1..n |->
                    [ key |-> LookupKeys[i],
                      val |-> DevType(dts[i], Absent, NoPriority, << >>, 0) ] ]
    /\ json_files = << JsonFile(dev_ident_json) >>
    /\ gen_options = ScriptingOptions
    /\ decode_generator = "DecodeGenerator"
    /\ pc = "micropython"
    /\ StartOfRun
    /\ UnitsIdle

SpecLookup == InitLookup /\ [][GenerateMicroPython]_vars

----------------------------------------------------------------------------
(* GenerateSysTypes.py: replace_revisioned_values on its own *)

\* most elements of the list or dict given to replace_revisioned_values
MaxItems == 3

\* key in d
HasKey(d, key) == \E i \in DOMAIN d.items : d.items[i].key = key

\* d[key]
GetKey(d, key) == d.items[CHOOSE i \in DOMAIN d.items : d.items[i].key = key].val

\* del d[key]
DelKey(d, key) == JDict(SelectSeq(d.items, LAMBDA e : e.key # key))

\* d[key] = val for a key d holds
SetKey(d, key, val) ==
    JDict([ i \in DOMAIN d.items |->
              IF d.items[i].key = key THEN JItem(key, val) ELSE d.items[i] ])

\* del l[i], i from 0
DelIndex(l, i) ==
    JList(SubSeq(l.items, 1, i) \o SubSeq(l.items, i + 2, Len(l.items)))

\* l[i] = val, i from 0
SetIndex(l, i, val) == JList([ l.items EXCEPT ![i + 1] = val ])

\* lines 101-104
is_hwrev_list(elem) ==
    /\ elem.type = "list"
    /\ Len(elem.items) > 0
    /\ \A i \in DOMAIN elem.items :
          /\ elem.items[i].type = "dict"
          /\ HasKey(elem.items[i], "__hwRevs__")
          /\ HasKey(elem.items[i], "__value__")

\* target_revision in item["__hwRevs__"]
ListsRevision(item, target_revision) ==
    \E i \in DOMAIN GetKey(item, "__hwRevs__").items :
        GetKey(item, "__hwRevs__").items[i] = JNum(target_revision)

\* the inner for loops of lines 132-137 and 143-148: position of the first
\* item that lists the revision, 0 when the loop reaches its else
FirstListing(value, target_revision) ==
    IF \E i \in DOMAIN value.items : ListsRevision(value.items[i], target_revision)
    THEN CHOOSE i \in DOMAIN value.items :
            /\ ListsRevision(value.items[i], target_revision)
            /\ \A j \in 1..(i - 1) : ~ListsRevision(value.items[j], target_revision)
    ELSE 0

\* the call's outcome: the value as the call leaves it and the exception ("" if none)
Returned(value) == [ value |-> value, raised |-> "" ]
Raised(value, why) == [ value |-> value, raised |-> why ]

RECURSIVE replace_revisioned_values(_, _)
RECURSIVE ReplaceInDict(_, _, _)
RECURSIVE ReplaceInList(_, _, _, _)

\* lines 130-139: the loop over list(json_data.items()) from the entries todo on
ReplaceInDict(json_data, todo, target_revision) ==
    IF todo = << >> THEN Returned(json_data)
    ELSE LET key == Head(todo).key
             value == Head(todo).val
         IN  IF is_hwrev_list(value)
             THEN LET m == FirstListing(value, target_revision) IN
                  ReplaceInDict(
                      IF m = 0 THEN DelKey(json_data, key)
                      ELSE SetKey(json_data, key, GetKey(value.items[m], "__value__")),
                      Tail(todo), target_revision)
             ELSE LET r == replace_revisioned_values(value, target_revision) IN
                  IF r.raised # ""
                  THEN Raised(SetKey(json_data, key, r.value), r.raised)
                  ELSE ReplaceInDict(SetKey(json_data, key, r.value),
                                     Tail(todo), target_revision)

\* lines 141-150: the loop over range(len(json_data)) from i on, n being the
\* length the list had when the loop began
ReplaceInList(json_data, i, n, target_revision) ==
    IF i >= n THEN Returned(json_data)
    ELSE IF i >= Len(json_data.items) THEN Raised(json_data, "IndexError")
    ELSE LET value == json_data.items[i + 1] IN
         IF is_hwrev_list(value)
         THEN LET m == FirstListing(value, target_revision) IN
              ReplaceInList(
                  IF m = 0 THEN DelIndex(json_data, i)
                  ELSE SetIndex(json_data, i, GetKey(value.items[m], "__value__")),
                  i + 1, n, target_revision)
         ELSE LET r == replace_revisioned_values(value, target_revision) IN
              IF r.raised # ""
              THEN Raised(SetIndex(json_data, i, r.value), r.raised)
              ELSE ReplaceInList(SetIndex(json_data, i, r.value),
                                 i + 1, n, target_revision)

\* lines 123-152
replace_revisioned_values(json_data, target_revision) ==
    IF json_data.type = "dict"
    THEN ReplaceInDict(json_data, json_data.items, target_revision)
    ELSE IF json_data.type = "list"
    THEN ReplaceInList(json_data, 0, Len(json_data.items), target_revision)
    ELSE Returned(json_data)

\* one option of an alternates array
Alternate(revs, value) ==
    JDict(<< JItem("__hwRevs__", JList([ i \in DOMAIN revs |-> JNum(revs[i]) ])),
             JItem("__value__", value) >>)

\* alternates for revisions 1 and 2, and for revision 2 only
AltsRev1And2 == JList(<< Alternate(<< 1 >>, JNum(10)), Alternate(<< 1, 2 >>, JNum(20)) >>)
AltsRev2 == JList(<< Alternate(<< 2 >>, JNum(30)) >>)

\* the values a list or a dict under test holds
JsonElements ==
    { JNum(7), AltsRev1And2, AltsRev2,
      JList(<< AltsRev2 >>),
      JDict(<< JItem("k", AltsRev1And2) >>),
      JList(<< JDict(<< JItem("__hwRevs__", JList(<< JNum(1) >>)) >>) >>) }

JsonKeys == << "k1", "k2", "k3", "k4", "k5" >>

\* the JSON values given to the call
JsonInputs ==
    UNION { { JList(es) : es \in [ 1..n -> JsonElements ] }
              \cup { JDict([ i \in 1..n |-> JItem(JsonKeys[i], es[i]) ]) :
                       es \in [ 1..n -> JsonElements ] } : n \in 0..MaxItems }

HwRevisions == { 1, 2, 3 }

InitHwRev ==
    /\ sys_type_json \in JsonInputs
    /\ version_name \in HwRevisions
    /\ unversioned_sys_type_json = sys_type_json
    /\ field_text = << >> /\ raw_literal = << >>
    /\ json_paths = << >> /\ json_path_list = << >>
    /\ json_files = << >> /\ dev_ident_json = << >>
    /\ gen_options = NativeOptions
    /\ decode_generator = "DecodeGenerator"
    /\ pc = "replace_revisioned_values"
    /\ StartOfRun

\* GenerateSysTypes.py line 237; IndexError is not caught by line 274
ReplaceRevisionedValues ==
    /\ pc = "replace_revisioned_values"
    /\ LET r == replace_revisioned_values(unversioned_sys_type_json, version_name) IN
       /\ unversioned_sys_type_json' = r.value
       /\ IF r.raised # "" THEN Abort(r.raised)
          ELSE pc' = "replaced" /\ Running
    /\ UNCHANGED << inputs, runs, outputs, loaded, parsed, tables, dev_record_index,
                    field_text, raw_literal, json_paths, json_path_list,
                    sys_type_json, version_name >>

SpecHwRev == InitHwRev /\ [][ReplaceRevisionedValues]_vars

----------------------------------------------------------------------------
(* The classifier on its own: a catalog of a descriptor without scanPriority
   followed by one descriptor with any scanPriority value *)

\* largest integer scanPriority
MaxScanPriority == 4

S_urgent == << "u", "r", "g", "e", "n", "t" >>

\* scanPriority values of the JSON
ScanPriorities ==
    { NoPriority, OtherPriority, BoolPriority(TRUE), BoolPriority(FALSE) }
        \cup { IntPriority(n) : n \in -1..MaxScanPriority }
        \cup { StrPriority(str) : str \in { S_high, S_medium, S_low, S_urgent } }

\* address specs of the descriptor under test: one address, a range, none
ClassifyAddresses ==
    { << "0", "x", "2", "0" >>, << "0", "x", "1", "0", "-", "0", "x", "1", "2" >>, Absent }

InitClassify ==
    /\ \E sp \in ScanPriorities : \E addresses \in ClassifyAddresses :
         dev_ident_json =
             << [ key |-> "devA",
                  val |-> DevType(<< "T", "1" >>, << "0", "x", "3", "0" >>,
                                  NoPriority, << >>, 0) ],
                [ key |-> "devB",
                  val |-> DevType(<< "T", "2" >>, addresses, sp, << >>, 0) ] >>
    /\ json_files = << JsonFile(dev_ident_json) >>
    /\ gen_options = NativeOptions
    /\ decode_generator = "DecodeGenerator"
    /\ pc = "addresses"
    /\ StartOfRun
    /\ UnitsIdle

NextClassify == ParseAddrs \/ Classify \/ IndexAddrs

SpecClassify == InitClassify /\ [][NextClassify]_vars

----------------------------------------------------------------------------
(* The decoder generator on its own: one descriptor with any attributes *)

\* most attributes of the descriptor
MaxAttrs == 2

S_acc == << "a", "c", "c" >>

\* entries of devInfoJson.resp.a: one-, two- and four-byte types, a float type,
\* a type code type_map does not hold, with and without scaling, and a
\* two-byte entry without a name
DecoderAttrs ==
    { Attr(S_acc, t, d, a, o) :
        t \in { "B", ">h", ">f", "?" }, d \in { 1, 10 }, a \in { 0, 5 },
        o \in { S_int, S_float } }
      \cup { Attr(<< >>, ">h", 1, 0, S_int) }

InitDecoder ==
    /\ \E n \in 0..MaxAttrs :
         \E attrs \in [ 1..n -> DecoderAttrs ] :
            dev_ident_json =
                << [ key |-> "devA",
                     val |-> DevType(<< "T", "1" >>, Absent, NoPriority, attrs, 0) ] >>
    /\ json_files = << JsonFile(dev_ident_json) >>
    /\ gen_options = ScriptingOptions
    /\ decode_generator = "DecodeGenerator"
    /\ pc = "micropython"
    /\ StartOfRun
    /\ UnitsIdle

SpecDecoder == InitDecoder /\ [][GenerateMicroPython]_vars

----------------------------------------------------------------------------
(* The path argument on its own: lines 29-35 of process_dev_types and the
   entries the load loop of lines 44-47 opens *)

\* longest json_paths argument
MaxArgLen == 3

\* characters of the argument: brackets, comma, blank, a letter of a path
ArgChars == { "[", "]", ",", " ", "a" }

JsonPathArgs == UNION { [ 1..n -> ArgChars ] : n \in 0..MaxArgLen }

\* str.strip(): leading and trailing whitespace removed
RECURSIVE StrStrip(_)
StrStrip(text) ==
    IF text = << >> THEN << >>
    ELSE IF Head(text) = " " THEN StrStrip(Tail(text))
    ELSE IF text[Len(text)] = " " THEN StrStrip(SubSeq(text, 1, Len(text) - 1))
    ELSE text

\* str.split(','): the pieces between commas, one piece for a text without comma
RECURSIVE StrSplit(_, _)
StrSplit(text, piece) ==
    IF text = << >> THEN << piece >>
    ELSE IF Head(text) = "," THEN << piece >> \o StrSplit(Tail(text), << >>)
    ELSE StrSplit(Tail(text), Append(piece, Head(text)))

\* lines 29-35: strip, json_paths[0] == '[', json_paths[-1] == ']', split;
\* an index into an empty string raises IndexError
SplitJsonPaths(arg) ==
    LET stripped == StrStrip(arg) IN
    IF stripped = << >>
    THEN [ raised |-> "IndexError", json_files |-> << >> ]
    ELSE LET opened == IF stripped[1] = "[" THEN Tail(stripped) ELSE stripped IN
         IF opened = << >>
         THEN [ raised |-> "IndexError", json_files |-> << >> ]
         ELSE LET closed == IF opened[Len(opened)] = "]"
                            THEN SubSeq(opened, 1, Len(opened) - 1) ELSE opened
              IN  [ raised |-> "", json_files |-> StrSplit(closed, << >>) ]

\* lines 44-47: entries that are blank are passed over, the others opened by
\* their stripped text
RECURSIVE PathsOpened(_)
PathsOpened(files) ==
    IF files = << >> THEN << >>
    ELSE IF StrStrip(Head(files)) = << >> THEN PathsOpened(Tail(files))
    ELSE << StrStrip(Head(files)) >> \o PathsOpened(Tail(files))

InitPaths ==
    /\ json_paths \in JsonPathArgs
    /\ json_path_list = << >>
    /\ field_text = << >> /\ raw_literal = << >>
    /\ sys_type_json = JNull /\ version_name = 0
    /\ unversioned_sys_type_json = JNull
    /\ json_files = << >> /\ dev_ident_json = << >>
    /\ gen_options = NativeOptions
    /\ decode_generator = "DecodeGenerator"
    /\ pc = "paths"
    /\ StartOfRun

\* lines 29-35 and the paths the loop of lines 44-47 goes on to open
HandlePaths ==
    /\ pc = "paths"
    /\ LET r == SplitJsonPaths(json_paths) IN
       IF r.raised # ""
       THEN Abort(r.raised) /\ json_path_list' = << >>
       ELSE /\ json_path_list' = PathsOpened(r.json_files)
            /\ pc' = "load"
            /\ Running
    /\ UNCHANGED << inputs, runs, outputs, loaded, parsed, tables, dev_record_index,
                    field_text, raw_literal, json_paths, sys_type_json,
                    version_name, unversioned_sys_type_json >>

SpecPaths == InitPaths /\ [][HandlePaths]_vars

----------------------------------------------------------------------------
(* The symbol table on its own: one descriptor whose attribute names hold
   upper-case letters, a leading digit, a blank and an underscore, given to
   generate_micropython_files *)

\* most attributes of the descriptor
MaxSymbolAttrs == 2

\* attribute names: plain, with a blank, with an underscore in its place,
\* upper-case, starting with a digit
SymbolNames ==
    { << "a", "c", "c" >>, << "a", " ", "b" >>, << "a", "_", "b" >>,
      << "A" >>, << "9", "x" >> }

SymbolAttrs == { Attr(n, "B", 1, 0, S_int) : n \in SymbolNames }

InitSymbols ==
    /\ \E n \in 0..MaxSymbolAttrs :
         \E attrs \in [ 1..n -> SymbolAttrs ] :
            \E device_type \in { << >>, << "T", "1" >> } :
               dev_ident_json =
                   << [ key |-> "devA",
                        val |-> DevType(device_type, Absent, NoPriority, attrs, n) ] >>
    /\ json_files = << JsonFile(dev_ident_json) >>
    /\ gen_options = ScriptingOptions
    /\ decode_generator \in { "None", "DecodeGenerator" }
    /\ pc = "micropython"
    /\ StartOfRun
    /\ UnitsIdle

SpecSymbols == InitSymbols /\ [][GenerateMicroPython]_vars

----------------------------------------------------------------------------
(* Classification, index and tables together: catalogs whose descriptors
   share addresses across priorities, name addresses outside 0x04..0x77 and
   above 0x7f, or hold a range written backwards; the run from line 70 on *)

\* most descriptors of such a catalog
MaxScanDevs == 2

ScanKeys == << "devA", "devB", "devC" >>

\* "0xLO-0xHI"
RangeText(lo, hi) == HexText(lo, "lower") \o << "-" >> \o HexText(hi, "lower")

\* "0xAA,0xBB"
PairText(a, b) == HexText(a, "lower") \o << "," >> \o HexText(b, "lower")

ScanDev(addresses, scanPriority) ==
    DevType(<< "T", "1" >>, addresses, scanPriority, << >>, 0)

ScanDevs ==
    { ScanDev(RangeText(16, 18), StrPriority(S_high)),
      ScanDev(PairText(16, 17), StrPriority(S_medium)),
      ScanDev(PairText(17, 3), IntPriority(3)),
      ScanDev(HexText(128, "lower"), StrPriority(S_high)),
      ScanDev(HexText(120, "lower"), NoPriority),
      ScanDev(RangeText(18, 16), StrPriority(S_medium)),
      ScanDev(RangeText(18, 16), StrPriority(S_high)),
      ScanDev(Absent, StrPriority(S_medium)) }

InitScan ==
    /\ \E n \in 1..MaxScanDevs :
         \E devs \in [ 1..n -> ScanDevs ] :
            dev_ident_json = [ i \in 1..n |-> [ key |-> ScanKeys[i], val |-> devs[i] ] ]
    /\ json_files = << JsonFile(dev_ident_json) >>
    /\ gen_options = NativeOptions
    /\ decode_generator = "DecodeGenerator"
    /\ pc = "addresses"
    /\ StartOfRun
    /\ UnitsIdle

NextScan ==
    \/ ParseAddrs
    \/ Classify
    \/ IndexAddrs
    \/ BuildArray
    \/ WritePollHeader
    \/ OpenTypeHeader
    \/ WriteRecord
    \/ WriteTables
    \/ Exit

SpecScan == InitScan /\ [][NextScan]_vars

----------------------------------------------------------------------------
(* Properties *)

\* the descriptor the loop at line 72 or line 171 is at
CurrentDevType == dev_ident_json[dev_record_index + 1].val

\* the comma-separated tokens of a descriptor's address spec, stripped
AddrSpecTokens(dev_type) ==
    LET addresses == Strip(IF dev_type.addresses = Absent THEN << >>
                           ELSE dev_type.addresses)
    IN  IF addresses = << >> THEN << >>
        ELSE [ i \in DOMAIN Split(addresses, ",") |-> Strip(Split(addresses, ",")[i]) ]

\* some token is neither 0xNN nor 0xNN-0xMM
HasMalformedToken(dev_type) ==
    \E i \in DOMAIN AddrSpecTokens(dev_type) :
        /\ ~MatchSingle(AddrSpecTokens(dev_type)[i])
        /\ ~MatchRange(AddrSpecTokens(dev_type)[i])

\* the address spec is absent, empty or blank
HasNoAddresses(dev_type) == AddrSpecTokens(dev_type) = << >>

\* C1: when the run ends with the poll-data size mismatch of a descriptor, no
\* output file has been created or written.
C1_SizeMismatchWritesNothing ==
    (pc = "aborted" /\ error = "PollDataSizeMismatch") => NoOutputWritten

\* C2: while the catalog holds a descriptor with a malformed address token the
\* run never gets past the descriptor loop and no output file exists; it can
\* only end aborted, with a non-zero exit code.
C2_MalformedTokenAborts ==
    (\E i \in DOMAIN dev_ident_json : HasMalformedToken(dev_ident_json[i].val))
        => /\ NoOutputWritten
           /\ pc \in { "load", "addresses", "classify", "index", "aborted" }
           /\ pc = "aborted" => exit_code # 0
           /\ error = "InvalidAddressRange" => pc = "aborted"

\* the run was ended by a malformed token of the second descriptor
C2_Witness ==
    /\ pc = "aborted" /\ error = "InvalidAddressRange" /\ exit_code = 1
    /\ dev_record_index = 1
    /\ HasMalformedToken(CurrentDevType)
    /\ NoOutputWritten

\* C3: an address spec written as a comma-separated list of 0xNN and
\* 0xNN-0xMM tokens is accepted and parses to the concatenation, in token
\* order, of each token's addresses, a range being lo, lo+1, ..., hi;
\* duplicates stay.
C3_ParseExpandsInOrder ==
    (addr_tokens # << >> /\ pc # "addresses")
        => /\ pc = "classify"
           /\ addr_list = SpecAddresses(addr_tokens)

\* "0x10-0x12,0x10" parsed to 0x10, 0x11, 0x12, 0x10
C3_Witness ==
    /\ pc = "classify"
    /\ addr_tokens = << [ lo |-> 16, hi |-> 18, style |-> "lower" ],
                        [ lo |-> 16, hi |-> -1, style |-> "lower" ] >>
    /\ addr_list = << 16, 17, 18, 16 >>

\* C4: the three emitted priority lists are pairwise disjoint and list 2 is
\* exactly the valid window without the addresses of lists 0 and 1.
C4_BucketsDisjointAndComplement ==
    dev_type_header.tables
        => LET l == dev_type_header.scan_lists IN
           /\ Range(l[1]) \cap Range(l[2]) = {}
           /\ Range(l[1]) \cap Range(l[3]) = {}
           /\ Range(l[2]) \cap Range(l[3]) = {}
           /\ Range(l[3]) = ValidWindow \ (Range(l[1]) \cup Range(l[2]))

\* lists written for a catalog with a high-priority range and with addresses
\* 0x03 and 0x78 classified low
C4_Witness ==
    /\ dev_type_header.tables
    /\ dev_type_header.scan_lists[1] = << 16 >>
    /\ dev_type_header.scan_lists[2] = << 17, 18 >>
    /\ Len(dev_ident_json) = 2
    /\ dev_ident_json[2].val = DevWindowEdgeLow
    /\ 3 \notin Range(dev_type_header.scan_lists[3])
    /\ 118 \in Range(dev_type_header.scan_lists[3])

\* scanPriority values whose priorityValue is 0
IsHighPriority(sp) ==
    \/ sp.kind = "str" /\ sp.s = S_high
    \/ sp.kind = "int" /\ sp.n <= 1

\* C5: classifying a high-priority descriptor adds its first address to set
\* 0 and its remaining addresses to set 1, and nothing else to any set.
C5_HighPrimaryOnly ==
    [][ ( /\ pc = "classify" /\ pc' = "index"
          /\ IsHighPriority(CurrentDevType.scanPriority) )
        => /\ addr_scan_priority_sets'[1] =
                  addr_scan_priority_sets[1] \cup { addr_list[1] }
           /\ addr_scan_priority_sets'[2] =
                  addr_scan_priority_sets[2] \cup Range(Tail(addr_list))
           /\ addr_scan_priority_sets'[3] = addr_scan_priority_sets[3] ]_vars

\* "0x10-0x12" with scanPriority "high" has just been classified
C5_Witness ==
    /\ pc = "index"
    /\ dev_record_index = 0
    /\ CurrentDevType = DevRangeHigh
    /\ addr_list = << 16, 17, 18 >>
    /\ addr_scan_priority_sets[1] = { 16 }
    /\ addr_scan_priority_sets[2] = { 17, 18 }

\* positions (from 0) of the descriptors whose resolved addresses hold a, in
\* catalog order, each once
ClaimingPositions(a) ==
    SelectSeq([ i \in DOMAIN dev_ident_json |-> i - 1 ],
              LAMBDA p : a \in Range(ParseAddresses(dev_ident_json[p + 1].val.addresses,
                                                    << >>).addr_list))

\* C6: the index list built for each address of 0x00..0x7f is exactly the
\* positions of the descriptors claiming it, each once, in catalog order.
C6_IndexListsOncePerDescriptor ==
    addr_index_to_dev_array # << >>
        => \A a \in min_addr_array_index..max_addr_array_index :
               addr_index_to_dev_array[a + 1] = ClaimingPositions(a)

\* every entry of every file, in the order read
RECURSIVE AllEntries(_)
AllEntries(files) ==
    IF files = << >> THEN << >>
    ELSE Head(files).devTypes \o AllEntries(Tail(files))

\* keys by first occurrence, each with the value of its last occurrence
MergedByFirstKeyLastValue(entries) ==
    LET first == SelectSeq([ i \in DOMAIN entries |-> i ],
                     LAMBDA i : \A j \in 1..(i - 1) : entries[j].key # entries[i].key)
        last(k) == CHOOSE i \in DOMAIN entries :
                     /\ entries[i].key = k
                     /\ \A j \in (i + 1)..Len(entries) : entries[j].key # k
    IN  [ n \in DOMAIN first |->
            [ key |-> entries[first[n]].key,
              val |-> entries[last(entries[first[n]].key)].val ] ]

\* C7: once every file is loaded, the merged catalog lists the keys in the
\* order of their first occurrence (file order, then order within the file)
\* and holds for each key the whole descriptor of its last definition.
C7_MergeLastWinsFirstPosition ==
    (pc # "load" /\ error = "")
        => dev_ident_json = MergedByFirstKeyLastValue(AllEntries(json_files))

\* devA redefined by the second file keeps its place before devB
C7_Witness ==
    /\ pc # "load"
    /\ Len(json_files) = 2
    /\ json_files[1].devTypes = << [ key |-> "devA", val |-> DevRangeHigh ],
                                   [ key |-> "devB", val |-> DevRangeHigh ] >>
    /\ json_files[2].devTypes = << [ key |-> "devA", val |-> DevRepeatedAddr ] >>
    /\ dev_ident_json = << [ key |-> "devA", val |-> DevRepeatedAddr ],
                           [ key |-> "devB", val |-> DevRangeHigh ] >>

\* C8: a second run on the same input files with the same options leaves
\* every output file with the content the first run left.
C8_SecondRunSameOutput ==
    (run_no = 2 /\ pc \in { "done", "aborted" }) => OutputFiles = first_run

\* both runs completed and wrote priority lists and a symbol table
C8_Witness ==
    /\ run_no = 2 /\ pc = "done"
    /\ mp_qstr_header.exists
    /\ dev_type_header.scan_lists[2] = << 17, 18 >>
    /\ OutputFiles = first_run

\* C9: a descriptor without addresses never ends the run.
C9_NoAddressesNotAnError ==
    ( /\ pc = "aborted"
      /\ error \in { "UnboundLocalError", "IndexError", "KeyError",
                     "InvalidAddressRange" } )
        => ~HasNoAddresses(CurrentDevType)

\* C10: a missing or invalid input file aborts the run with a non-zero exit
\* before any descriptor is processed or any output file exists, and a run
\* that ends with exit code 0 has written every requested output file.
C10_BadFileAbortsCleanRunWritesAll ==
    /\ (\E i \in DOMAIN json_files : json_files[i].kind # "ok")
         => /\ pc \in { "load", "aborted" }
            /\ NoOutputWritten
            /\ addr_range = Unbound /\ dev_record_index = 0
            /\ addr_index_to_dev_record = << >>
    /\ error \in { "FileNotFoundError", "JSONDecodeError" }
         => pc = "aborted" /\ exit_code # 0
    /\ pc = "aborted" => exit_code # 0
    /\ exit_code = 0 => pc = "done"
    /\ pc = "done"
         => /\ exit_code = 0 /\ error = ""
            /\ dev_poll_header.exists
            /\ dev_type_header.exists /\ dev_type_header.tables
            /\ Len(dev_type_header.records) = Len(dev_ident_json)
            /\ gen_options.generate_micropython =>
                 /\ gen_options.mp_qstr_header => mp_qstr_header.exists
                 /\ gen_options.mp_decoder_header => mp_decoder_header.exists
                 /\ gen_options.mp_decoder_source => mp_decoder_source.exists

\* the second file is not valid JSON, the first was loaded
C10_Witness ==
    /\ pc = "aborted" /\ error = "JSONDecodeError" /\ exit_code = 1
    /\ file_index = 2
    /\ Len(dev_ident_json) > 0
    /\ NoOutputWritten

\* C11: the literal emitted for a field text denotes exactly that text and is
\* ended only by the emitter's closing delimiter, whatever the text holds.
C11_LiteralDenotesText ==
    raw_literal # << >>
        => /\ RawStringContent(raw_literal) = field_text
           /\ RawStringRest(raw_literal) = << >>

\* the first position of chain whose branch compares equal to deviceType, 0 if none
FirstMatch(chain, deviceType) ==
    IF \E i \in DOMAIN chain : chain[i].device_type = deviceType
    THEN CHOOSE i \in DOMAIN chain :
            /\ chain[i].device_type = deviceType
            /\ \A j \in 1..(i - 1) : chain[j].device_type # deviceType
    ELSE 0

\* C12: the dispatch function has one branch per descriptor with a non-empty
\* deviceType, in catalog order, each calling the decoder generated for that
\* descriptor; the first branch that compares equal decides the result and a
\* device type no branch matches gives none.
C12_DispatchChainInCatalogOrder ==
    mp_decoder_source.exists
        => LET chain == mp_decoder_source.lookup
               named == SelectSeq([ i \in DOMAIN dev_ident_json |-> dev_ident_json[i].val.deviceType ],
                                  LAMBDA t : t # << >>)
           IN  /\ [ i \in DOMAIN chain |-> chain[i].device_type ] = named
               /\ Len(mp_decoder_source.decoders) = Len(chain)
               /\ \A i \in DOMAIN chain :
                     /\ mp_decoder_source.decoders[i].device_type = chain[i].device_type
                     /\ mp_decoder_source.decoders[i].func_name = chain[i].func_name
               /\ \A q \in LookupRequests :
                     mp_decode_device_data(chain, q) =
                         IF FirstMatch(chain, q) = 0 THEN MpConstNone
                         ELSE chain[FirstMatch(chain, q)].func_name

\* a catalog T2, unnamed, T1 gave the chain T2, T1
C12_Witness ==
    /\ mp_decoder_source.exists
    /\ Len(dev_ident_json) = 3
    /\ dev_ident_json[2].val.deviceType = << >>
    /\ Len(mp_decoder_source.lookup) = 2
    /\ [ i \in 1..2 |-> mp_decoder_source.lookup[i].device_type ]
           = << << "T", "2" >>, << "T", "1" >> >>
    /\ mp_decode_device_data(mp_decoder_source.lookup, << "T", "1" >>)
           = FuncName(<< "T", "1" >>)
    /\ mp_decode_device_data(mp_decoder_source.lookup, << "T", "3" >>) = MpConstNone

\* the value the choice of revision r gives: each alternates array held by a
\* dict or a list is replaced by the __value__ of its first item listing r, or
\* dropped when no item lists r; everything else stays
RECURSIVE ChosenForRevision(_, _)
ChosenForRevision(value, r) ==
    IF value.type \notin { "dict", "list" } THEN value
    ELSE LET kept == SelectSeq(value.items,
                        LAMBDA e : LET x == IF value.type = "dict" THEN e.val ELSE e
                                   IN  is_hwrev_list(x) => FirstListing(x, r) # 0)
             pick(x) == IF is_hwrev_list(x)
                        THEN GetKey(x.items[FirstListing(x, r)], "__value__")
                        ELSE ChosenForRevision(x, r)
         IN  IF value.type = "dict"
             THEN JDict([ i \in DOMAIN kept |-> JItem(kept[i].key, pick(kept[i].val)) ])
             ELSE JList([ i \in DOMAIN kept |-> pick(kept[i]) ])

\* C13: replace_revisioned_values completes without error on every JSON value
\* and leaves each alternates array replaced by the __value__ of its first item
\* listing the revision, or removed when none lists it, and all else unchanged.
C13_ReplaceCompletesAndChooses ==
    pc # "replace_revisioned_values"
        => /\ pc = "replaced" /\ error = ""
           /\ unversioned_sys_type_json = ChosenForRevision(sys_type_json, version_name)

\* priorityValue as stated: n - 1 for an integer n, the table value for
\* "high", "medium", "low", 2 for anything else, clamped to 0..2
StatedPriorityValue(sp) ==
    LET v == IF sp.kind = "int" THEN sp.n - 1
             ELSE IF sp.kind = "str" /\ sp.s = S_high THEN 0
             ELSE IF sp.kind = "str" /\ sp.s = S_medium THEN 1
             ELSE 2
    IN  IF v < 0 THEN 0 ELSE IF v > 2 THEN 2 ELSE v

\* C14: whatever the scanPriority value of a descriptor is, classification
\* does not end the run, and the descriptor's primary address goes to the
\* bucket of the stated priorityValue.
C14_PriorityValueNeverAborts ==
    /\ error \notin { "KeyError", "IndexError" }
    /\ ( /\ pc = "index"
         /\ CurrentDevType.scanPriority.kind # "absent"
         /\ addr_list # << >> )
         => addr_list[1] \in
                addr_scan_priority_sets[StatedPriorityValue(CurrentDevType.scanPriority) + 1]

\* the bucket of a scanPriority whose priorityValue is 1 or 2, 0 for any other
MediumOrLowBucket(sp) ==
    IF sp.kind = "int" /\ sp.n = 2 THEN 1
    ELSE IF sp.kind = "int" /\ sp.n >= 3 THEN 2
    ELSE IF sp.kind = "str" /\ sp.s = S_medium THEN 1
    ELSE IF sp.kind = "str" /\ sp.s = S_low THEN 2
    ELSE IF sp.kind = "other" THEN 2
    ELSE 0

\* C15: classifying a descriptor whose priorityValue is 1 or 2 adds all its
\* addresses, the primary one included, to that bucket and nothing to any
\* other; classifying a descriptor without scanPriority changes no bucket.
C15_MediumLowAllAddresses ==
    [][ (pc = "classify" /\ pc' = "index")
        => LET sp == CurrentDevType.scanPriority
               b == MediumOrLowBucket(sp)
           IN  /\ b # 0 =>
                     /\ addr_scan_priority_sets'[b + 1] =
                            addr_scan_priority_sets[b + 1] \cup Range(addr_list)
                     /\ \A i \in 1..NUM_PRIORITY_LEVELS :
                           i # b + 1 =>
                               addr_scan_priority_sets'[i] = addr_scan_priority_sets[i]
               /\ sp.kind = "absent" =>
                     addr_scan_priority_sets' = addr_scan_priority_sets ]_vars

\* "0x10-0x12" with scanPriority 2 has just been classified: all in bucket 1
C15_Witness ==
    /\ pc = "index"
    /\ dev_record_index = 1
    /\ CurrentDevType.scanPriority = IntPriority(2)
    /\ addr_list = << 16, 17, 18 >>
    /\ addr_scan_priority_sets = << {}, { 16, 17, 18 }, {} >>

\* the byte width stated for a type code, 0 for a code not in the type table
StatedWidth(t) ==
    IF t \in { "b", "B" } THEN 1
    ELSE IF t \in { ">h", "<h", ">H", "<H" } THEN 2
    ELSE IF t \in { ">i", "<i", ">I", "<I", ">l", "<l", ">L", "<L", ">f", "<f" } THEN 4
    ELSE 0

\* the attributes of the only descriptor and the decoder generated for it
DeclaredAttrs == dev_ident_json[1].val.resp_a
GeneratedStatements == mp_decoder_source.decoders[1].statements

\* the extractions among the statements of a decoder
Extractions(statements) == SelectSeq(statements, LAMBDA st : st.emitted = "extraction")

\* the attributes whose type code is in the type table
Recognized(attrs) == SelectSeq(attrs, LAMBDA at : StatedWidth(at.t) > 0)

\* those of them that have a name
NamedRecognized(attrs) == SelectSeq(Recognized(attrs), LAMBDA at : at.n # << >>)

\* sum of the stated widths of the first k attributes of attrs
RECURSIVE WidthBefore(_, _)
WidthBefore(attrs, k) ==
    IF k = 0 THEN 0 ELSE WidthBefore(attrs, k - 1) + StatedWidth(attrs[k].t)

\* C16: an attribute whose type code is not in the type table does not stop
\* generation, gets no extraction, and leaves the extractions of the other
\* attributes, offsets included, as they are when it is not declared at all.
C16_UnknownTypeSkipped ==
    mp_decoder_source.exists
        => /\ pc = "return" /\ error = ""
           /\ \A k \in DOMAIN Extractions(GeneratedStatements) :
                 StatedWidth(Extractions(GeneratedStatements)[k].attr_type) > 0
           /\ Extractions(GeneratedStatements)
                 = Extractions(DecoderStatements(Recognized(DeclaredAttrs), 0))

\* a "?" attribute before a ">h" attribute: a comment, then ">h" read at offset 0
C16_Witness ==
    /\ mp_decoder_source.exists
    /\ Len(DeclaredAttrs) = 2
    /\ DeclaredAttrs[1].t = "?" /\ DeclaredAttrs[2].t = ">h"
    /\ Len(GeneratedStatements) = 2
    /\ GeneratedStatements[1].emitted = "skipping_comment"
    /\ GeneratedStatements[2].emitted = "extraction"
    /\ GeneratedStatements[2].buffer_offset = 0

\* the extractions are those of the attributes attrs, in order, each at the
\* sum of the widths of the ones before it
LaidOutAs(attrs) ==
    LET ext == Extractions(GeneratedStatements) IN
    /\ Len(ext) = Len(attrs)
    /\ \A k \in DOMAIN ext :
          /\ ext[k].attr_type = attrs[k].t
          /\ ext[k].buffer_offset = WidthBefore(attrs, k - 1)
          /\ \A j \in 1..(k - 1) :
                ext[j].buffer_offset + StatedWidth(ext[j].attr_type) <= ext[k].buffer_offset

Arithmetic(st) ==
    IF \/ st.c_type = "float"
       \/ st.divisor[1] = "float"
       \/ (st.offset # << >> /\ st.offset[1] = "float")
    THEN "float" ELSE "int"

\* the code emitted for attribute at by extraction st, but for the arithmetic
ScaledPerOutputKind(st, at) ==
    LET float_out == at.o = S_float IN
    /\ st.value_type # "" <=> (at.d # 1 \/ at.a # 0)
    /\ st.store = IF float_out THEN "mp_dict_store_float" ELSE "mp_dict_store_int"
    /\ st.value_type # "" =>
          /\ st.value_type = IF float_out THEN "float" ELSE "int"
          /\ st.divisor[2] = at.d
          /\ st.offset # << >> <=> at.a # 0
          /\ st.offset # << >> => st.offset[2] = at.a
          /\ st.cast = ""
    /\ st.value_type = "" =>
          st.cast = IF float_out THEN "(float)" ELSE "(int)"

\* each extraction is followed at its offset plus its width
OffsetsAdvance ==
    LET ext == Extractions(GeneratedStatements) IN
    \A k \in 1..(Len(ext) - 1) :
        ext[k + 1].buffer_offset = ext[k].buffer_offset + StatedWidth(ext[k].attr_type)

\* C18 as stated: for every attribute with a type code of the table, scaling
\* code is emitted iff divisor != 1 or additiveOffset != 0, in floating-point
\* arithmetic with a float store for outputKind "float" and in integer
\* arithmetic with an int store otherwise; else the raw value is stored with a
\* cast by outputKind; the offset advances by the width.
C18_ScalingArithmeticPerOutputKind ==
    mp_decoder_source.exists
        => LET ext == Extractions(GeneratedStatements)
               attrs == Recognized(DeclaredAttrs)
           IN  /\ Len(ext) = Len(attrs)
               /\ \A k \in DOMAIN ext :
                     /\ ScaledPerOutputKind(ext[k], attrs[k])
                     /\ ext[k].value_type # "" =>
                           Arithmetic(ext[k]) = IF attrs[k].o = S_float THEN "float" ELSE "int"
               /\ OffsetsAdvance

\* C18: for every attribute with a name and a type code of the table, scaling
\* code is emitted iff divisor != 1 or additiveOffset != 0, into a float
\* variable with float literals and a float store for outputKind "float",
\* into an int variable with the numbers as written and an int store
\* otherwise; the arithmetic is integer only when outputKind is not "float"
\* and the raw type is an integer type; without scaling the raw value is
\* stored with a cast by outputKind; the offset advances by the width.
C18_ScalingPerOutputKindAndRawType ==
    mp_decoder_source.exists
        => LET ext == Extractions(GeneratedStatements)
               attrs == NamedRecognized(DeclaredAttrs)
           IN  /\ Len(ext) = Len(attrs)
               /\ \A k \in DOMAIN ext :
                     /\ ScaledPerOutputKind(ext[k], attrs[k])
                     /\ ext[k].value_type # "" =>
                           Arithmetic(ext[k]) =
                               IF attrs[k].o = S_float \/ ext[k].c_type = "float"
                               THEN "float" ELSE "int"
               /\ OffsetsAdvance

\* a ">f" attribute with divisor 10 and outputKind "int", then a scaled ">h":
\* an int variable computed in floating-point, the next field 4 bytes on
C18_Witness ==
    /\ mp_decoder_source.exists
    /\ DeclaredAttrs = << Attr(S_acc, ">f", 10, 0, S_int), Attr(S_acc, ">h", 1, 5, S_float) >>
    /\ Len(GeneratedStatements) = 2
    /\ GeneratedStatements[1].value_type = "int"
    /\ GeneratedStatements[1].store = "mp_dict_store_int"
    /\ Arithmetic(GeneratedStatements[1]) = "float"
    /\ GeneratedStatements[2].buffer_offset = 4
    /\ GeneratedStatements[2].offset = << "float", 5 >>

\* the addresses for which a per-address index array was written
ArrayAddrs == { dev_type_header.index_arrays[i].addr : i \in DOMAIN dev_type_header.index_arrays }

\* C19: once the tables are written, the count table and the pointer table each
\* have one entry per address of min_addr_array_index..max_addr_array_index in
\* address order; the count of an address is the length of its index list, an
\* index array (holding that list, one per address) is written exactly for the
\* addresses with a non-empty list, and the pointer entry is nullptr exactly when
\* the count is 0 and otherwise names the array of its own address.
C19_TablesOneEntryPerAddress ==
    dev_type_header.tables =>
        LET h == dev_type_header
            n == max_addr_array_index - min_addr_array_index + 1
        IN  /\ Len(h.count_by_addr) = n
            /\ Len(h.index_by_addr) = n
            /\ \A i, j \in DOMAIN h.index_arrays :
                   h.index_arrays[i].addr = h.index_arrays[j].addr => i = j
            /\ \A a \in min_addr_array_index..max_addr_array_index :
                   LET k == a - min_addr_array_index + 1
                       list == addr_index_to_dev_array[k]
                   IN  /\ h.count_by_addr[k] = Len(list)
                       /\ (a \in ArrayAddrs) <=> (list # << >>)
                       /\ \A i \in DOMAIN h.index_arrays :
                              h.index_arrays[i].addr = a => h.index_arrays[i].indices = list
                       /\ (h.index_by_addr[k] = -1) <=> (h.count_by_addr[k] = 0)
                       /\ h.count_by_addr[k] # 0 => h.index_by_addr[k] = a

\* tables written with an address of count 1, one of count 2 or more and one of
\* count 0
C19_Witness ==
    /\ dev_type_header.tables
    /\ \E k \in DOMAIN dev_type_header.count_by_addr :
           dev_type_header.count_by_addr[k] = 1 /\ dev_type_header.index_by_addr[k] = k - 1
    /\ \E k \in DOMAIN dev_type_header.count_by_addr :
           dev_type_header.count_by_addr[k] >= 2 /\ dev_type_header.index_by_addr[k] = k - 1
    /\ \E k \in DOMAIN dev_type_header.count_by_addr :
           dev_type_header.count_by_addr[k] = 0 /\ dev_type_header.index_by_addr[k] = -1

\* one leading [ and one trailing ] taken off the trimmed argument when present
Unbracketed(arg) ==
    LET t == StrStrip(arg)
        u == IF t # << >> /\ t[1] = "[" THEN Tail(t) ELSE t
    IN  IF u # << >> /\ u[Len(u)] = "]" THEN SubSeq(u, 1, Len(u) - 1) ELSE u

\* the entries between the commas, trimmed, the empty ones left out
StatedPaths(arg) ==
    LET pieces == StrSplit(Unbracketed(arg), << >>)
        trimmed == [ i \in DOMAIN pieces |-> StrStrip(pieces[i]) ]
    IN  SelectSeq(trimmed, LAMBDA e : e # << >>)

\* C20: for every argument string, an empty one or one of brackets and blanks
\* included, the path handling completes without an error and the paths to load
\* are the entries between the commas of the unbracketed argument, trimmed, the
\* empty ones left out, in the order given.
C20_EveryArgumentYieldsPaths ==
    pc # "paths" =>
        /\ error = ""
        /\ json_path_list = StatedPaths(json_paths)

\* the Q(...) entries of the symbol table, as written
QEntries == mp_qstr_header.qstrs

\* the names the table is to hold: the standard module names, the deviceType
\* of every descriptor and the name of every response attribute, the empty
\* ones left out
NamesToHold ==
    (standard_module_qstrs
        \cup { dev_ident_json[i].val.deviceType : i \in DOMAIN dev_ident_json }
        \cup UNION { { dev_ident_json[i].val.resp_a[j].n :
                          j \in DOMAIN dev_ident_json[i].val.resp_a } :
                      i \in DOMAIN dev_ident_json })
        \ { << >> }

\* every name to hold has its entry
SymbolsHeld == \A x \in NamesToHold : \E i \in DOMAIN QEntries : QEntries[i] = QstrName(x)

\* the entries are in ascending order
SymbolsSorted ==
    \A i, j \in DOMAIN QEntries : i < j => ~StrLess(QEntries[j], QEntries[i])

\* no entry is written twice
SymbolsOnce == \A i, j \in DOMAIN QEntries : QEntries[i] = QEntries[j] => i = j

\* C21: the symbol table written from the merged catalog holds an entry for
\* each standard module name, each non-empty deviceType and each non-empty
\* attribute name, its entries are in sorted order and no entry, as written
\* after sanitising to identifier characters, appears twice.
C21_SymbolTableSortedNoDuplicates ==
    mp_qstr_header.exists => SymbolsHeld /\ SymbolsSorted /\ SymbolsOnce

\* C22: every descriptor index held by a written per-address index array is
\* smaller than the number of device-type records written, and the record at
\* that position is the record of the descriptor at that catalog position,
\* whose address spec resolves to a list holding the address of the array.
C22_IndexArraysPointAtClaimingRecords ==
    dev_type_header.tables =>
        \A i \in DOMAIN dev_type_header.index_arrays :
            LET arr == dev_type_header.index_arrays[i] IN
            \A k \in DOMAIN arr.indices :
                LET at == arr.indices[k] IN
                /\ at < Len(dev_type_header.records)
                /\ dev_type_header.records[at + 1] =
                       DeviceTypeRecord(dev_ident_json[at + 1].val,
                                        dev_type_header.records[at + 1].poll_data_size_bytes,
                                        gen_options)
                /\ arr.addr \in Range(ParseAddresses(
                                          dev_type_header.records[at + 1].addresses,
                                          << >>).addr_list)

\* tables written with an index array that names a descriptor after the first
C22_Witness ==
    /\ dev_type_header.tables
    /\ Len(dev_type_header.records) >= 2
    /\ \E i \in DOMAIN dev_type_header.index_arrays :
           \E k \in DOMAIN dev_type_header.index_arrays[i].indices :
               dev_type_header.index_arrays[i].indices[k] >= 1

\* the identifiers x of the MP_QSTR_x the written decoder functions refer to
\* for attribute names
ReferencedQstrs ==
    UNION { { mp_decoder_source.decoders[i].statements[k].qstr_name :
                k \in DOMAIN mp_decoder_source.decoders[i].statements } :
            i \in DOMAIN mp_decoder_source.decoders } \ { << >> }

\* C23: every MP_QSTR_x a written decoder function refers to for an attribute
\* name has its entry Q(x) in the symbol table written by the same generator,
\* whatever the attribute name (upper-case letters, a leading digit,
\* characters outside the identifier characters).
C23_ReferencedSymbolsAreDefined ==
    mp_decoder_source.exists /\ mp_qstr_header.exists =>
        \A x \in ReferencedQstrs : \E i \in DOMAIN QEntries : QEntries[i] = x

\* the extractions written in decoder function number i
ExtractionsOf(i) ==
    SelectSeq(mp_decoder_source.decoders[i].statements,
              LAMBDA st : st.emitted = "extraction")

\* C24: in every decoder function written by a run (every descriptor has then
\* passed the size check of lines 173-180), each extraction reads bytes inside
\* the declared poll response: offset + width <= declared bytes, the length the
\* function's guard tests bufLen against.
C24_ExtractionsInsideDeclaredBytes ==
    mp_decoder_source.exists =>
        \A i \in DOMAIN mp_decoder_source.decoders :
            \A k \in DOMAIN ExtractionsOf(i) :
                ExtractionsOf(i)[k].buffer_offset + ByteSize(ExtractionsOf(i)[k].attr_type)
                    <= mp_decoder_source.decoders[i].expected_bytes

\* a decoder function written after the size check, with two extractions, the
\* second of which ends at the last declared byte
C24_Witness ==
    /\ mp_decoder_source.exists
    /\ dev_type_header.tables
    /\ \E i \in DOMAIN mp_decoder_source.decoders :
           /\ Len(ExtractionsOf(i)) >= 2
           /\ ExtractionsOf(i)[2].buffer_offset > 0
           /\ ExtractionsOf(i)[2].buffer_offset + ByteSize(ExtractionsOf(i)[2].attr_type)
                  = mp_decoder_source.decoders[i].expected_bytes

\* the decoder function names the header declares, the source defines and the
\* dispatch chain calls
DeclaredDecoders ==
    { FuncName(mp_decoder_header.decls[i]) : i \in DOMAIN mp_decoder_header.decls }
DefinedDecoders ==
    { mp_decoder_source.decoders[i].func_name : i \in DOMAIN mp_decoder_source.decoders }
CalledDecoders ==
    { mp_decoder_source.lookup[i].func_name : i \in DOMAIN mp_decoder_source.lookup }

\* the three sets are the decoder names of the descriptors with a deviceType
DecoderSetsAgree ==
    /\ DeclaredDecoders = DefinedDecoders
    /\ DefinedDecoders = CalledDecoders
    /\ DefinedDecoders =
           { FuncName(dev_ident_json[i].val.deviceType) : i \in DOMAIN dev_ident_json }
               \ { FuncName(<< >>) }

\* C25: the decoder functions declared in the header, defined in the source
\* and called from the dispatch chain are the same set, one per descriptor with
\* a non-empty deviceType; no function name is defined twice and every
\* definition is the one the dispatch chain reaches for some device type, also
\* when two catalog keys carry the same deviceType.
C25_DecodersDeclaredDefinedCalledOnce ==
    mp_decoder_source.exists /\ mp_decoder_header.exists =>
        /\ DecoderSetsAgree
        /\ \A i, j \in DOMAIN mp_decoder_source.decoders :
               mp_decoder_source.decoders[i].func_name
                   = mp_decoder_source.decoders[j].func_name => i = j
        /\ \A i \in DOMAIN mp_decoder_source.decoders :
               \E q \in LookupRequests : FirstMatch(mp_decoder_source.lookup, q) = i

\* the buckets (0, 1, 2) the descriptors of the catalog assign address a to:
\* a high-priority descriptor its first address to 0 and the others to 1, any
\* other descriptor with a scanPriority all its addresses to its own level
AssignedBuckets(a) ==
    { b \in 0..(NUM_PRIORITY_LEVELS - 1) :
        \E i \in DOMAIN dev_ident_json :
            LET sp == dev_ident_json[i].val.scanPriority
                resolved == ParseAddresses(dev_ident_json[i].val.addresses, << >>).addr_list
            IN  /\ sp.kind # "absent"
                /\ resolved # << >>
                /\ IF PriorityValue(sp) = 0
                   THEN \/ b = 0 /\ a = resolved[1]
                        \/ b = 1 /\ a \in Range(Tail(resolved))
                   ELSE b = PriorityValue(sp) /\ a \in Range(resolved) }

\* the numbers (0, 1, 2) of the written priority lists that hold address a
ListsHolding(a) ==
    { i - 1 : i \in { k \in DOMAIN dev_type_header.scan_lists :
                        a \in Range(dev_type_header.scan_lists[k]) } }

\* C26: every address of the valid window is in exactly one of the three
\* written priority lists; each list is strictly ascending; each written length
\* is the length of its list; an address the descriptors assign to several
\* buckets is in the list of the lowest-numbered of them only.
C26_ListsPartitionWindowHighestWins ==
    dev_type_header.tables =>
        LET l == dev_type_header.scan_lists IN
        /\ Len(l) = NUM_PRIORITY_LEVELS
        /\ \A a \in ValidWindow : Cardinality(ListsHolding(a)) = 1
        /\ \A i \in DOMAIN l : \A j, k \in DOMAIN l[i] : j < k => l[i][j] < l[i][k]
        /\ \A i \in DOMAIN l : dev_type_header.scan_list_lengths[i] = Len(l[i])
        /\ \A a \in 0..MaxAddr :
               Cardinality(AssignedBuckets(a)) >= 2 =>
                   ListsHolding(a) =
                       { CHOOSE b \in AssignedBuckets(a) :
                            \A c \in AssignedBuckets(a) : b <= c }

\* lists written for a catalog that assigns 0x10 to buckets 0 and 1 and 0x11
\* to bucket 1 only
C26_Witness ==
    /\ dev_type_header.tables
    /\ AssignedBuckets(16) = { 0, 1 }
    /\ ListsHolding(16) = { 0 }
    /\ ListsHolding(17) = { 1 }
    /\ Len(dev_type_header.scan_lists[2]) >= 2

\* the address the entry at position k of a written per-address table stands for
EntryAddr(k) == min_addr_array_index + k - 1

\* C27: the written constants BASE_DEV_INDEX_BY_ARRAY_MIN_ADDR and
\* BASE_DEV_INDEX_BY_ARRAY_MAX_ADDR are the addresses of the first and of the
\* last entry of baseDevTypeCountByAddr and baseDevTypeIndexByAddr, so every
\* address with a non-null index entry lies between them.
C27_RangeConstantsMatchTables ==
    dev_type_header.tables =>
        LET h == dev_type_header IN
        /\ h.min_addr = EntryAddr(1)
        /\ h.max_addr = EntryAddr(Len(h.count_by_addr))
        /\ h.max_addr = EntryAddr(Len(h.index_by_addr))
        /\ \A k \in DOMAIN h.index_by_addr :
               h.index_by_addr[k] # -1 =>
                   h.min_addr <= EntryAddr(k) /\ EntryAddr(k) <= h.max_addr

\* address a has a non-null entry in the written address index
HasIndexEntry(a) ==
    /\ a \in min_addr_array_index..max_addr_array_index
    /\ dev_type_header.index_by_addr[a - min_addr_array_index + 1] # -1
    /\ dev_type_header.count_by_addr[a - min_addr_array_index + 1] > 0

\* C28: every address in written priority list 0 or 1 is claimed by some
\* descriptor and has a non-null entry in the written address index, for every
\* address the grammar admits (0x00 to 0xff).
C28_PriorityAddressesAreIndexed ==
    dev_type_header.tables =>
        \A a \in 0..MaxAddr :
            ListsHolding(a) \cap { 0, 1 } # {} =>
                /\ ClaimingPositions(a) # << >>
                /\ HasIndexEntry(a)

\* the address spec of dev_type is one range token whose start is greater
\* than its end
OnlyBackwardRange(dev_type) ==
    /\ dev_type.addresses # Absent
    /\ LET t == Strip(dev_type.addresses) IN
       /\ MatchRange(t)
       /\ IntHex(SubSeq(t, 1, 4)) > IntHex(SubSeq(t, 6, 9))

\* C29: a descriptor whose only token is a range written backwards passes the
\* parser without an error and with an empty address list; its classification
\* and indexing are those of an empty address list: the index is left as it
\* was, the priority sets are left as they were, and a scanPriority of level 0
\* ends the run at addr_list[0] as it does for any empty list.
C29_BackwardRangeIsEmptyList ==
    [][ (pc \in { "addresses", "classify", "index" }
            /\ OnlyBackwardRange(CurrentDevType))
        => /\ pc = "addresses" =>
                 pc' = "classify" /\ addr_list' = << >> /\ error' = ""
           /\ pc = "classify" =>
                 /\ addr_list = << >>
                 /\ addr_scan_priority_sets' = addr_scan_priority_sets
                 /\ IF CurrentDevType.scanPriority.kind # "absent"
                       /\ PriorityValue(CurrentDevType.scanPriority) = 0
                    THEN pc' = "aborted" /\ error' = "IndexError"
                    ELSE pc' = "index" /\ error' = ""
           /\ pc = "index" =>
                 /\ addr_list = << >>
                 /\ addr_index_to_dev_record' = addr_index_to_dev_record
                 /\ error' = "" ]_vars

\* the second descriptor, "0x12-0x10" with medium priority, has been parsed
\* and classified and is about to be indexed
C29_Witness ==
    /\ pc = "index"
    /\ dev_record_index = 1
    /\ OnlyBackwardRange(CurrentDevType)
    /\ CurrentDevType.scanPriority = StrPriority(S_medium)
    /\ addr_list = << >>
    /\ error = ""

====
